---- MODULE Spec2Model ----
(***************************************************************************)
(* A model of vrouter.c, the offline bicycle router: the tile loader, the  *)
(* edge decoder, the bicycle cost model, the two binary heaps, the two     *)
(* open-addressed visited tables, the bidirectional A* loop of route(),    *)
(* the path stitching, calculate_statistics() and main().                  *)
(*                                                                         *)
(* Numbers.  The C code computes in float/double.  The model computes in   *)
(* integers: lengths and distances are metres, costs are hundredths of a   *)
(* second, speeds are km/h * 10^4 and preference factors are units of      *)
(* 10^-4, with truncating division where the C code rounds.  Coordinates   *)
(* are metres north and east of the corner (-90, -180) of the tile grid,   *)
(* and haversine() is the planar distance between two such points.         *)
(***************************************************************************)
EXTENDS Integers, Sequences, FiniteSets, TLC

(* ------------------------------------------------------------------ *)
(* Constants of the program                                             *)
(* ------------------------------------------------------------------ *)
HEADER_SIZE == 272
NODE_SIZE == 32
EDGE_SIZE == 48
TRANSITION_SIZE == 8
TILES_PER_ROW == 1440

kCarAccess == 1
kPedestrianAccess == 2
kBicycleAccess == 4

USE_ROAD == 0
USE_TRACK == 3
USE_LIVING_STREET == 10
USE_SERVICE_ROAD == 11
USE_CYCLEWAY == 20
USE_MOUNTAIN_BIKE == 21
USE_FOOTWAY == 25
USE_STEPS == 26
USE_PATH == 27
USE_FERRY == 41

(* 1e18f, the "no value yet" of best_total_cost, of an empty heap's      *)
(* minimum and of find_nearest_node's best distances: larger than every  *)
(* cost and distance of the model, and twice it still fits 32 bits.      *)
Inf == 1000000000
(* 1e9f, edge_cost's result for an edge without length.                  *)
kNoLengthCost == 100000000
(* The distance within which find_nearest_node prefers a node that has a *)
(* bicycle or pedestrian edge, in metres.                                *)
kPreferBikeDist == 500

(* ------------------------------------------------------------------ *)
(* Capacities, scaled down                                              *)
(* ------------------------------------------------------------------ *)
(* MAX_TILES is 200, MAX_HEAP 1000000, MAX_VISITED 2000003, MAX_PATH     *)
(* 200000, the probe limit 2000 and the iteration cap is clamped to      *)
(* [1000000, 6000000] in the C code; a tile is 0.25 degrees wide.        *)
MAX_TILES == 2
MAX_HEAP == 2
MAX_VISITED == 7
MAX_PROBE == 2
MAX_PATH == 3
MIN_ITERATIONS == 6
MAX_ITERATIONS == 8
LEVEL_2_SIZE == 8000
(* The largest tile_id and node index a tile file of the model names. *)
MaxTileId == 2
MaxNodeId == 4

kWorstAllowedSurface == <<2, 3, 4, 6>>
kDefaultCyclingSpeed == <<25, 20, 18, 16>>
(* kGradeBasedSpeedFactor * 100, grades 0..15 *)
kGradeBasedSpeedFactor ==
  <<220, 200, 190, 170, 140, 120, 100, 95, 85, 75, 65, 55, 50, 45, 40, 30>>
(* kSurfaceSpeedFactor * 100, bicycle types 0..3, surfaces 0..7 *)
kSurfaceSpeedFactor ==
  << <<100, 100, 90, 60, 50, 30, 20, 0>>,
     <<100, 100, 100, 80, 70, 50, 40, 0>>,
     <<100, 100, 100, 80, 60, 40, 25, 0>>,
     <<100, 100, 100, 100, 90, 75, 55, 0>> >>
(* kDismountSpeed * 10^4 *)
kDismountSpeed == 51000

(* ------------------------------------------------------------------ *)
(* Arithmetic helpers                                                   *)
(* ------------------------------------------------------------------ *)
Min(a, b) == IF a <= b THEN a ELSE b
Max(a, b) == IF a >= b THEN a ELSE b

RECURSIVE SqrtSearch(_, _, _)
SqrtSearch(n, lo, hi) ==
  IF lo >= hi THEN lo
  ELSE LET mid == (lo + hi + 1) \div 2
       IN IF mid * mid <= n THEN SqrtSearch(n, mid, hi)
          ELSE SqrtSearch(n, lo, mid - 1)

(* floor(sqrt(n)) for 0 <= n < 2^30 *)
ISqrt(n) == SqrtSearch(n, 0, 32767)

(* The distance in metres between two points given in metres. *)
haversine(lat1, lon1, lat2, lon2) ==
  ISqrt((lat2 - lat1) * (lat2 - lat1) + (lon2 - lon1) * (lon2 - lon1))

(* Bit b of the mask m is set: (m & (1 << b)) != 0 for b = log2(bit). *)
HasBit(m, bit) == (m \div bit) % 2 = 1

(* ------------------------------------------------------------------ *)
(* State                                                                *)
(* ------------------------------------------------------------------ *)
VARIABLES
  disk,           \* the tile directory: tile_id -> tile file, or NoFile
  args,           \* main's arguments (coordinates and routing options)
  pc,             \* where main/route stands
  g_tiles,        \* the tile cache: the cached tile_ids, oldest first
  g_heap_fwd,     \* forward heap (g_heap_fwd[0 .. g_heap_fwd_size-1])
  g_heap_bwd,     \* backward heap
  g_visited_fwd,  \* forward visited table, slots 0 .. MAX_VISITED-1
  g_visited_bwd,  \* backward visited table
  rt,             \* route()'s locals
  g_path,         \* g_path[0 .. g_path_len-1]
  g_dist,         \* g_dist_car_free, _separated, _with_cars, _pushing
  ret,            \* what main printed and returned
  allocated,      \* the malloc'ed buffers not yet freed
  hist            \* history: what happened during the query

vars == <<disk, args, pc, g_tiles, g_heap_fwd, g_heap_bwd, g_visited_fwd,
          g_visited_bwd, rt, g_path, g_dist, ret, allocated, hist>>

NoFile == [raw_size |-> -1]
NULL == -1
null_state == [tile_id |-> 0, node_id |-> 0]
State(t, n) == [tile_id |-> t, node_id |-> n]

(* ------------------------------------------------------------------ *)
(* Tile loading                                                         *)
(* ------------------------------------------------------------------ *)
(* decompress_gzip: the file's bytes, or NULL when it cannot be opened. *)
decompress_gzip(tile_id) ==
  IF tile_id \in DOMAIN disk THEN disk[tile_id] ELSE NoFile

(* t->edges_offset as load_tile computes it from the header. *)
edges_offset(file) ==
  HEADER_SIZE + file.node_count * NODE_SIZE + file.trans_count * TRANSITION_SIZE

(* load_tile without the eviction of the oldest tile. *)
load_tile_keep(tiles, tile_id) ==
  IF \E i \in 1..Len(tiles) : tiles[i] = tile_id
  THEN [tiles |-> tiles, t |-> tile_id]
  ELSE LET raw == decompress_gzip(tile_id)
       IN IF raw.raw_size < HEADER_SIZE THEN [tiles |-> tiles, t |-> NULL]
          ELSE [tiles |-> Append(tiles, tile_id), t |-> tile_id]

(* load_tile moving a tile found in the cache to the newest position.   *)
load_tile_lru(tiles, tile_id) ==
  IF \E i \in 1..Len(tiles) : tiles[i] = tile_id
  THEN [tiles |-> Append(SelectSeq(tiles, LAMBDA t : t # tile_id), tile_id),
        t |-> tile_id]
  ELSE LET kept == IF Len(tiles) >= MAX_TILES THEN Tail(tiles) ELSE tiles
           raw == decompress_gzip(tile_id)
       IN IF raw.raw_size < HEADER_SIZE THEN [tiles |-> kept, t |-> NULL]
          ELSE [tiles |-> Append(kept, tile_id), t |-> tile_id]

(* load_tile on the cache `tiles`: the cache after the call and the     *)
(* handle returned (the tile_id, or NULL).                              *)
load_tile(tiles, tile_id) ==
  IF \E i \in 1..Len(tiles) : tiles[i] = tile_id
  THEN [tiles |-> tiles, t |-> tile_id]
  ELSE LET kept == IF Len(tiles) >= MAX_TILES THEN Tail(tiles) ELSE tiles
           raw == decompress_gzip(tile_id)
       IN IF raw.raw_size < 0 THEN [tiles |-> kept, t |-> NULL]
          ELSE IF raw.raw_size < HEADER_SIZE THEN [tiles |-> kept, t |-> NULL]
          ELSE [tiles |-> Append(kept, tile_id), t |-> tile_id]

(* The offsets of the node records load_tile reads from the buffer      *)
(* while parsing a tile it accepts (16 bytes at each).                  *)
NodeReadOffsets(file) ==
  IF file.raw_size < HEADER_SIZE THEN {}
  ELSE {HEADER_SIZE + i * NODE_SIZE : i \in 0..(file.node_count - 1)}

(* The offsets load_tile(tile_id) reads node records at: none on a      *)
(* cache hit, none when it returns NULL before parsing.                 *)
load_tile_reads(tiles, tile_id) ==
  IF \E i \in 1..Len(tiles) : tiles[i] = tile_id THEN {}
  ELSE NodeReadOffsets(decompress_gzip(tile_id))

(* A malloc'ed buffer: one of main's working buffers, or the raw_data   *)
(* or nodes buffer of a cached tile.                                    *)
Buffer(name, tile_id) == [name |-> name, tile_id |-> tile_id]

(* The buffers main allocates before it loads the first tile. *)
WorkBuffers ==
  {Buffer(n, NULL) :
     n \in {"g_heap_fwd", "g_heap_bwd", "g_visited_fwd", "g_visited_bwd", "g_path"}}

(* The buffers the cached tiles own. *)
TileBuffers(tiles) ==
  {Buffer(b, tiles[i]) : i \in 1..Len(tiles), b \in {"raw_data", "nodes"}}

(* The live buffers after load_tile calls changed the cache from `from` *)
(* to `to`: evicted tiles' buffers freed, loaded tiles' buffers added.  *)
AfterLoads(live, from, to) == (live \ TileBuffers(from)) \cup TileBuffers(to)

(* tile_id is in the cache `tiles`. *)
Cached(tiles, tile_id) == \E i \in 1..Len(tiles) : tiles[i] = tile_id

(* load_tile(tile_id) on the cache `tiles` frees the oldest tile.       *)
Evicts(tiles, tile_id) ==
  /\ ~(\E i \in 1..Len(tiles) : tiles[i] = tile_id)
  /\ Len(tiles) >= MAX_TILES

(* A tile handle is the address of a slot of g_tiles.  The slot of a    *)
(* cached tile, and the tile whose fields a read through the address of *)
(* slot `slot` finds: the slot behind the last cached tile still holds   *)
(* what the shift of the last eviction left there, a copy of the last   *)
(* cached tile's fields (Len(tiles) >= 1 after an eviction, MAX_TILES   *)
(* being at least 2).                                                   *)
SlotOf(tiles, tile_id) ==
  CHOOSE slot \in 0..(Len(tiles) - 1) : tiles[slot + 1] = tile_id

SlotTile(tiles, slot) ==
  IF slot < Len(tiles) THEN tiles[slot + 1] ELSE tiles[Len(tiles)]

(* The parsed tile with a tile_id, as load_tile parsed it from disk. *)
Tile(t) == disk[t]
Node(t, node_id) == disk[t].nodes[node_id + 1]

NoEdge == [ok |-> FALSE]

(* Whether edge record idx lies inside the tile's buffer. *)
EdgeInBuffer(t, idx) ==
  /\ idx < Tile(t).edge_count
  /\ edges_offset(Tile(t)) + idx * EDGE_SIZE + EDGE_SIZE <= Tile(t).raw_size

get_edge_end(t, idx) ==
  IF ~EdgeInBuffer(t, idx) THEN NoEdge
  ELSE LET e == Tile(t).edges[idx + 1]
       IN [ok |-> TRUE,
           end_level |-> e.end_level,
           end_tile_id |-> e.end_tile_id,
           end_node_id |-> e.end_node_id,
           has_bike |-> HasBit(e.fwd, kBicycleAccess) \/ HasBit(e.rev, kBicycleAccess),
           has_ped |-> HasBit(e.fwd, kPedestrianAccess) \/ HasBit(e.rev, kPedestrianAccess),
           has_car |-> HasBit(e.fwd, kCarAccess) \/ HasBit(e.rev, kCarAccess)]

get_edge_details(t, idx) ==
  IF ~EdgeInBuffer(t, idx) THEN NoEdge
  ELSE LET e == Tile(t).edges[idx + 1]
       IN [ok |-> TRUE,
           speed |-> IF e.speed = 0 THEN 15 ELSE e.speed,
           use |-> e.use,
           lanecount |-> IF e.lanecount = 0 THEN 1 ELSE e.lanecount,
           classification |-> e.classification,
           surface |-> e.surface,
           cycle_lane |-> e.cycle_lane,
           bike_network |-> e.bike_network,
           use_sidepath |-> e.use_sidepath,
           dismount |-> e.dismount,
           shoulder |-> e.shoulder,
           length |-> e.length,
           weighted_grade |-> IF e.weighted_grade = 0 THEN 7 ELSE e.weighted_grade]

(* ------------------------------------------------------------------ *)
(* Costing                                                              *)
(* ------------------------------------------------------------------ *)
(* length / (speed / 3.6) * preference, in hundredths of a second:      *)
(* speed in km/h * 10^4, preference in units of 10^-4.                  *)
TimeCost(length, speedE4, prefE4) == (length * 360 * prefE4) \div speedE4

(* The cycling speed of edge_cost (km/h * 10^4) before it is clamped. *)
RawSpeed(ed) ==
  LET grade == Min(ed.weighted_grade, 15)
      surface == Min(ed.surface, 7)
  IN IF ed.dismount = 1 THEN kDismountSpeed
     ELSE kDefaultCyclingSpeed[args.bicycle_type + 1]
          * kSurfaceSpeedFactor[args.bicycle_type + 1][surface + 1]
          * kGradeBasedSpeedFactor[grade + 1]

(* The cycling speed of edge_cost (km/h * 10^4), clamped to [4, 40]. *)
CyclingSpeed(ed) == Max(40000, Min(400000, RawSpeed(ed)))

(* The preference by use (units of 10^-4). *)
UsePreference(ed) ==
  IF ed.use = USE_CYCLEWAY THEN 9000
  ELSE IF ed.use = USE_TRACK THEN 9000
  ELSE IF ed.use = USE_MOUNTAIN_BIKE
       THEN (IF args.bicycle_type = 3 THEN 8500 ELSE 10000)
  ELSE IF ed.use = USE_PATH \/ ed.use = USE_FOOTWAY THEN 9500
  ELSE IF ed.use = USE_LIVING_STREET THEN 9500
  ELSE IF ed.use = USE_ROAD
       THEN 10000 + (100 - args.use_roads) * 15
            - (IF ed.cycle_lane >= 2 THEN 1000 ELSE 0)
  ELSE 10000

(* The stress of a road with cars, in tenths, clamped to [0.1, 1.0]. *)
CarStress(ed) ==
  LET s == 2 + (IF ed.speed > 50 THEN 3 ELSE 0) + (IF ed.speed > 70 THEN 3 ELSE 0)
             + (IF ed.classification <= 2 THEN 2 ELSE 0)
             + (IF ed.lanecount >= 2 THEN 1 ELSE 0)
             - (IF ed.cycle_lane >= 2 THEN 3 ELSE 0)
  IN Max(1, Min(10, s))

edge_cost(ee, ed) ==
  IF ed.length <= 0 THEN kNoLengthCost
  ELSE IF ed.use = USE_STEPS THEN TimeCost(ed.length, 40000, 30000)
  ELSE IF ed.use = USE_FERRY THEN TimeCost(ed.length, ed.speed * 10000, 12000)
  ELSE
    LET p0 == UsePreference(ed)
        p1 == IF ed.bike_network = 1 THEN (p0 * 95) \div 100 ELSE p0
        p2 == IF ~ee.has_bike /\ ee.has_ped
              THEN (p1 * (IF args.avoid_pushing # 0 THEN 20 ELSE 13)) \div 10
              ELSE p1
        p3 == IF args.avoid_cars # 0 /\ ee.has_car
              THEN (IF ed.use = USE_TRACK \/ ed.use = USE_LIVING_STREET
                       \/ ed.use = USE_SERVICE_ROAD
                    THEN (p2 * 105) \div 100
                    ELSE (p2 * (100 + 5 * CarStress(ed))) \div 100)
              ELSE p2
    IN TimeCost(ed.length, CyclingSpeed(ed), p3)

(* haversine(...) * kSpeedFactor[(int)max_speed], max_speed being twice *)
(* the default cycling speed, in hundredths of a second.                *)
Heuristic(lat, lon, to_lat, to_lon) ==
  (haversine(lat, lon, to_lat, to_lon) * 360)
    \div (2 * kDefaultCyclingSpeed[args.bicycle_type + 1])

(* The heuristic's cost for a distance of `metres`. *)
HeuristicCost(metres) ==
  (metres * 360) \div (2 * kDefaultCyclingSpeed[args.bicycle_type + 1])

(* ------------------------------------------------------------------ *)
(* Heaps: a heap is the sequence g_heap[0], ..., g_heap[size-1]         *)
(* ------------------------------------------------------------------ *)
Swap(h, i, j) == [h EXCEPT ![i + 1] = h[j + 1], ![j + 1] = h[i + 1]]

RECURSIVE SiftUp(_, _)
SiftUp(h, i) ==
  IF i <= 0 THEN h
  ELSE LET p == (i - 1) \div 2
       IN IF h[p + 1].f <= h[i + 1].f THEN h
          ELSE SiftUp(Swap(h, p, i), p)

(* heap_push on an array of `cap` entries. *)
heap_push_cap(h, e, cap) ==
  IF Len(h) >= cap THEN h
  ELSE SiftUp(Append(h, e), Len(h))

(* heap_push storing one entry more than MAX_HEAP. *)
heap_push_over(h, e) == heap_push_cap(h, e, MAX_HEAP + 1)

heap_push(h, e) == heap_push_cap(h, e, MAX_HEAP)

(* heap_pop's loop comparing the left child only. *)
RECURSIVE SiftDownLeft(_, _)
SiftDownLeft(h, i) ==
  LET l == 2 * i + 1
  IN IF l < Len(h) /\ h[l + 1].f < h[i + 1].f
     THEN SiftDownLeft(Swap(h, i, l), l)
     ELSE h

RECURSIVE SiftDown(_, _)
SiftDown(h, i) ==
  LET l == 2 * i + 1
      r == 2 * i + 2
      s1 == IF l < Len(h) /\ h[l + 1].f < h[i + 1].f THEN l ELSE i
      smallest == IF r < Len(h) /\ h[r + 1].f < h[s1 + 1].f THEN r ELSE s1
  IN IF smallest = i THEN h
     ELSE SiftDown(Swap(h, i, smallest), smallest)

(* heap_pop on a non-empty heap: the entry returned and the heap left. *)
heap_pop(h) ==
  LET n == Len(h) - 1
      moved == IF n = 0 THEN << >> ELSE [SubSeq(h, 1, n) EXCEPT ![1] = h[n + 1]]
  IN [ret |-> h[1], heap |-> IF n = 0 THEN moved ELSE SiftDown(moved, 0)]

(* The f of the heap's root, 1e18f for an empty heap. *)
MinF(h) == IF Len(h) > 0 THEN h[1].f ELSE Inf

(* ------------------------------------------------------------------ *)
(* hash_state: 64-bit FNV-1a arithmetic on eight 8-bit limbs, least     *)
(* significant first                                                    *)
(* ------------------------------------------------------------------ *)
\* 14695981039346656037 = 0xCBF29CE484222325
FnvOffset == <<37, 35, 34, 132, 228, 156, 242, 203>>
\* 1099511628211 = 0x00000100000001B3
FnvPrime == <<179, 1, 0, 0, 0, 1, 0, 0>>

RECURSIVE XorBits(_, _, _)
XorBits(a, b, n) ==
  IF n = 0 THEN 0
  ELSE ((a + b) % 2) + 2 * XorBits(a \div 2, b \div 2, n - 1)

(* h ^= v for a uint32 v: the low four limbs change. *)
XorU32(h, v) ==
  [k \in 1..8 |->
     IF k <= 4 THEN XorBits(h[k], (v \div (256 ^ (k - 1))) % 256, 8) ELSE h[k]]

RECURSIVE Column(_, _, _, _)
Column(a, b, k, i) ==
  IF i > k THEN 0 ELSE a[i + 1] * b[k - i + 1] + Column(a, b, k, i + 1)

RECURSIVE MulCarry(_, _, _, _)
MulCarry(a, b, k, carry) ==
  IF k = 8 THEN << >>
  ELSE LET t == Column(a, b, k, 0) + carry
       IN <<t % 256>> \o MulCarry(a, b, k + 1, t \div 256)

(* a * b modulo 2^64 *)
MulU64(a, b) == MulCarry(a, b, 0, 0)

RECURSIVE ModLimbs(_, _, _, _)
ModLimbs(a, m, k, r) ==
  IF k = 0 THEN r ELSE ModLimbs(a, m, k - 1, (r * 256 + a[k]) % m)

(* The hash of (tile_id, node_id) as hash_state computes it. *)
FnvHash(tile_id, node_id) ==
  LET h1 == MulU64(XorU32(FnvOffset, tile_id), FnvPrime)
      h2 == MulU64(XorU32(h1, node_id), FnvPrime)
  IN ModLimbs(h2, MAX_VISITED, 8, 0)

(* The hashes of the states the model's tiles can name, computed once. *)
HashTable ==
  [t \in 0..MaxTileId |-> [n \in 0..MaxNodeId |-> FnvHash(t, n)]]

hash_state(s) == HashTable[s.tile_id][s.node_id]

(* ------------------------------------------------------------------ *)
(* Visited tables                                                       *)
(* ------------------------------------------------------------------ *)
EmptyEntry ==
  [valid |-> 0, state |-> null_state, parent |-> null_state,
   parent_edge |-> 0, g |-> 0]

(* visited_clear_both: memset to 0 *)
visited_clear == [idx \in 0..(MAX_VISITED - 1) |-> EmptyEntry]

RECURSIVE FindProbe(_, _, _, _)
FindProbe(tbl, s, h, i) ==
  IF i >= MAX_PROBE THEN NULL
  ELSE LET idx == (h + i) % MAX_VISITED
       IN IF tbl[idx].valid = 0 THEN NULL
          ELSE IF tbl[idx].state = s THEN idx
          ELSE FindProbe(tbl, s, h, i + 1)

(* visited_find: the slot holding s, or NULL *)
visited_find(tbl, s) == FindProbe(tbl, s, hash_state(s), 0)

RECURSIVE InsertProbe(_, _, _, _)
InsertProbe(tbl, s, h, i) ==
  IF i >= MAX_PROBE THEN NULL
  ELSE LET idx == (h + i) % MAX_VISITED
       IN IF tbl[idx].valid = 0 \/ tbl[idx].state = s THEN idx
          ELSE InsertProbe(tbl, s, h, i + 1)

(* The slot visited_insert writes for s, or NULL when it drops the     *)
(* insertion.                                                          *)
InsertSlot(tbl, s) == InsertProbe(tbl, s, hash_state(s), 0)

visited_insert(tbl, s, g, parent, parent_edge) ==
  LET idx == InsertSlot(tbl, s)
  IN IF idx = NULL THEN tbl
     ELSE [tbl EXCEPT ![idx] = [valid |-> 1, state |-> s, parent |-> parent,
                                parent_edge |-> parent_edge, g |-> g]]

(* ------------------------------------------------------------------ *)
(* Find nearest node                                                    *)
(* ------------------------------------------------------------------ *)
(* The edge indices a loop over node n's edges in tile t visits:        *)
(* ei = edge_index; ei < edge_index + edge_count && ei < t->edge_count  *)
NodeEdges(t, n) ==
  LET nd == Node(t, n)
  IN nd.edge_index .. (Min(nd.edge_index + nd.edge_count, Tile(t).edge_count) - 1)

(* has_bike_edge of find_nearest_node *)
HasBikeEdge(t, n) ==
  \E ei \in NodeEdges(t, n) :
     LET ee == get_edge_end(t, ei) IN ee.ok /\ (ee.has_bike \/ ee.has_ped)

RECURSIVE NearestScan(_, _, _, _, _)
NearestScan(t, lat, lon, i, b) ==
  IF i >= Tile(t).node_count THEN b
  ELSE IF Node(t, i).edge_count = 0 THEN NearestScan(t, lat, lon, i + 1, b)
  ELSE LET d == haversine(lat, lon, Node(t, i).lat, Node(t, i).lon)
           b1 == IF HasBikeEdge(t, i) /\ d < b.best_bike_dist
                 THEN [b EXCEPT !.best_bike_dist = d, !.best_bike = i] ELSE b
           b2 == IF d < b1.best_dist
                 THEN [b1 EXCEPT !.best_dist = d, !.best = i] ELSE b1
       IN NearestScan(t, lat, lon, i + 1, b2)

find_nearest_node(t, lat, lon) ==
  LET b == NearestScan(t, lat, lon, 0,
             [best |-> 0, best_dist |-> Inf, best_bike |-> 0, best_bike_dist |-> Inf])
  IN IF b.best_bike_dist < kPreferBikeDist \/ b.best_bike_dist < b.best_dist * 2
     THEN b.best_bike ELSE b.best

(* ------------------------------------------------------------------ *)
(* route(): expansion of one popped entry                               *)
(* ------------------------------------------------------------------ *)
(* The surface gate of the forward and of the backward expansion. *)
SurfaceAllowedFwd(ed) == ed.surface <= kWorstAllowedSurface[args.bicycle_type + 1]
SurfaceAllowedBwd(ed) == ed.surface <= kWorstAllowedSurface[args.bicycle_type + 1]

(* The access gate of both expansions. *)
AccessAllowed(ee) == ee.has_bike \/ ee.has_ped

(* edge_cost and the pushing factor applied at expansion. *)
ExpansionCost(ee, ed) ==
  LET cost == edge_cost(ee, ed)
  IN IF ~ee.has_bike /\ ee.has_ped
     THEN cost * (IF args.avoid_pushing # 0 THEN 5 ELSE 2)
     ELSE cost

(* The state an expansion works on: the direction's heap and visited    *)
(* table, the tile cache, whether a push or an insertion was dropped,   *)
(* (and whether a push on a full heap changed the heap),                *)
(* whether the nodes array that `node` points into has been freed, and  *)
(* whether `tile` or `node` was read after an eviction changed what it  *)
(* denotes; and, as history, the lowest new_g computed so far for each  *)
(* state in this direction and whether an entry's g was lowered.        *)
Acc(heap, visited, tiles, proposed) ==
  [heap |-> heap, visited |-> visited, tiles |-> tiles,
   heap_dropped |-> FALSE, visited_dropped |-> FALSE,
   node_freed |-> FALSE, stale_use |-> FALSE,
   proposed |-> proposed, lowered |-> FALSE, full_changed |-> FALSE]

(* The history after new_g was computed for ns. *)
Proposed(acc, ns, new_g) ==
  [acc EXCEPT !.proposed[ns] = Min(@, new_g)]

(* The end of the edge loop body: the neighbour ns passed every test;   *)
(* push it with f = new_g + h and record it as visited.                 *)
PushNeighbour(cur, ei, acc, ns, new_g, dist, h) ==
  [acc EXCEPT
     !.heap = heap_push(acc.heap, [f |-> new_g + h, g |-> new_g, dist |-> dist,
                                   state |-> ns, parent |-> cur.state,
                                   parent_edge |-> ei]),
     !.visited = visited_insert(acc.visited, ns, new_g, cur.state, ei),
     !.heap_dropped = acc.heap_dropped \/ Len(acc.heap) >= MAX_HEAP,
     !.full_changed = acc.full_changed
                      \/ (Len(acc.heap) >= MAX_HEAP
                           /\ acc.heap # heap_push(acc.heap,
                                 [f |-> new_g + h, g |-> new_g, dist |-> dist,
                                  state |-> ns, parent |-> cur.state,
                                  parent_edge |-> ei])),
     !.visited_dropped = acc.visited_dropped \/ InsertSlot(acc.visited, ns) = NULL]

(* The expansion's state after ntile = load_tile(ns.tile_id) returned   *)
(* lt: the cache as the call left it; an eviction of the popped state's *)
(* tile freed the nodes array `node` points into.                       *)
Loaded(cur, acc, ns, lt) ==
  [acc EXCEPT
     !.tiles = lt.tiles,
     !.node_freed = acc.node_freed
                    \/ (Evicts(acc.tiles, ns.tile_id)
                         /\ Head(acc.tiles) = cur.state.tile_id)]

(* After load_tile(ns.tile_id) returned lt: skip the edge when the tile *)
(* is missing or holds no such node. tl is the direction's target.      *)
ExpandLoaded(cur, ei, tl, acc, ns, new_g, dist, lt) ==
  IF lt.t = NULL \/ ns.node_id >= Tile(lt.t).node_count
  THEN Loaded(cur, acc, ns, lt)
  ELSE PushNeighbour(cur, ei, Proposed(Loaded(cur, acc, ns, lt), ns, new_g),
                     ns, new_g, dist,
         Heuristic(Node(lt.t, ns.node_id).lat, Node(lt.t, ns.node_id).lon,
                   tl.lat, tl.lon))

(* ExpandFound without the test new_g >= nve->g of route(): every       *)
(* computed new_g is inserted.                                          *)
ExpandFoundAlways(cur, ei, tl, acc, ns, new_g, dist, nve) ==
  ExpandLoaded(cur, ei, tl, Proposed(acc, ns, new_g), ns, new_g, dist,
               load_tile(acc.tiles, ns.tile_id))

(* After visited_find(ns) returned nve: skip when new_g is no better. *)
ExpandFound(cur, ei, tl, acc, ns, new_g, dist, nve) ==
  IF nve # NULL /\ new_g >= acc.visited[nve].g THEN Proposed(acc, ns, new_g)
  ELSE ExpandLoaded(cur, ei, tl, [acc EXCEPT !.lowered = @ \/ nve # NULL],
                    ns, new_g, dist, load_tile(acc.tiles, ns.tile_id))

(* After the decoders returned ee and ed: the gates, then the cost. *)
ExpandDecoded(dir, cur, ei, tl, acc, ee, ed) ==
  IF ~ee.ok THEN acc
  ELSE IF ee.end_level # 2 THEN acc
  ELSE IF ~AccessAllowed(ee) THEN acc
  ELSE IF ~ed.ok THEN acc
  ELSE IF ~(IF dir = "fwd" THEN SurfaceAllowedFwd(ed) ELSE SurfaceAllowedBwd(ed))
       THEN acc
  ELSE ExpandFound(cur, ei, tl, acc,
                   State(ee.end_tile_id, ee.end_node_id),
                   cur.g + ExpansionCost(ee, ed),
                   cur.dist + ed.length,
                   visited_find(acc.visited, State(ee.end_tile_id, ee.end_node_id)))

(* One pass of the edge loop body for edge ei, read through `tile`,     *)
(* which denotes tile t; the popped entry is cur.                       *)
ExpandEdge(dir, cur, t, ei, tl, acc) ==
  ExpandDecoded(dir, cur, ei, tl, acc, get_edge_end(t, ei), get_edge_details(t, ei))

(* What a read of node->edge_index + node->edge_count can give once the *)
(* nodes array was freed: the old values, zero, or a value above every  *)
(* edge index.                                                          *)
DanglingReads == {"kept", "zero", "large"}

(* node->edge_index + node->edge_count as the loop test reads it; hd    *)
(* holds the slot `tile` points to and the node record `node` pointed   *)
(* to when the loop began.                                              *)
LoopBound(hd, acc, ub) ==
  IF ~acc.node_freed \/ ub = "kept" THEN hd.nd.edge_index + hd.nd.edge_count
  ELSE IF ub = "zero" THEN 0
  ELSE Inf

(* The expansion's state after one evaluation of the loop test, which   *)
(* reads through `tile` and `node`.                                     *)
LoopTest(cur, hd, acc) ==
  [acc EXCEPT !.stale_use = acc.stale_use \/ acc.node_freed
                            \/ SlotTile(acc.tiles, hd.slot) # cur.state.tile_id]

(* The edge loop from edge ei on:                                       *)
(* ei < node->edge_index + node->edge_count && ei < tile->edge_count    *)
RECURSIVE ExpandEdges(_, _, _, _, _, _, _)
ExpandEdges(dir, cur, hd, ei, ub, tl, acc) ==
  IF ~(/\ ei < LoopBound(hd, acc, ub)
       /\ ei < Tile(SlotTile(acc.tiles, hd.slot)).edge_count)
  THEN LoopTest(cur, hd, acc)
  ELSE ExpandEdges(dir, cur, hd, ei + 1, ub, tl,
                   ExpandEdge(dir, cur, SlotTile(acc.tiles, hd.slot), ei, tl,
                              LoopTest(cur, hd, acc)))

(* What one direction's half of a loop pass did: skipped says that it   *)
(* left its block early (goto do_backward / continue), stale that the   *)
(* popped entry was discarded, met that the popped state was found in   *)
(* the opposite visited table, with the candidate total.                *)
StepResult(acc, skipped, stale, met, total, cur) ==
  [heap |-> acc.heap, visited |-> acc.visited, tiles |-> acc.tiles,
   heap_dropped |-> acc.heap_dropped, visited_dropped |-> acc.visited_dropped,
   stale_use |-> acc.stale_use, proposed |-> acc.proposed, lowered |-> acc.lowered,
   full_changed |-> acc.full_changed,
   skipped |-> skipped, stale |-> stale, met |-> met, total |-> total, cur |-> cur]

(* The edge loop over the popped state's node: `tile` is the address of *)
(* slot hd.slot, `node` points to the node record hd.nd.                *)
ExpandNode(dir, cur, hd, ub, tl, acc) ==
  ExpandEdges(dir, cur, hd, hd.nd.edge_index, ub, tl, acc)

(* After the meeting check: load the popped state's tile and expand. *)
SearchLoaded(dir, heap, own, cur, met, total, tl, ub, prop, lt) ==
  IF lt.t = NULL \/ cur.state.node_id >= Tile(lt.t).node_count
  THEN StepResult(Acc(heap, own, lt.tiles, prop), TRUE, FALSE, met, total, cur)
  ELSE StepResult(ExpandNode(dir, cur,
                             [slot |-> SlotOf(lt.tiles, lt.t),
                              nd |-> Node(lt.t, cur.state.node_id)],
                             ub, tl, Acc(heap, own, lt.tiles, prop)),
                  FALSE, FALSE, met, total, cur)

(* SearchPopped without the stale test: every popped entry is checked   *)
(* against the opposite table and expanded.                             *)
SearchPoppedAll(dir, heap, own, opp, tiles, tl, ub, prop, cur, ve, o) ==
  SearchLoaded(dir, heap, own, cur, o # NULL,
               IF o # NULL THEN cur.g + opp[o].g ELSE Inf,
               tl, ub, prop, load_tile(tiles, cur.state.tile_id))

(* After the pop: ve and o are the popped state's slots in the own and  *)
(* in the opposite visited table.                                       *)
SearchPopped(dir, heap, own, opp, tiles, tl, ub, prop, cur, ve, o) ==
  IF ve # NULL /\ cur.g > own[ve].g
  THEN StepResult(Acc(heap, own, tiles, prop), TRUE, TRUE, FALSE, Inf, cur)
  ELSE SearchLoaded(dir, heap, own, cur, o # NULL,
                    IF o # NULL THEN cur.g + opp[o].g ELSE Inf,
                    tl, ub, prop, load_tile(tiles, cur.state.tile_id))

SearchPop(dir, p, own, opp, tiles, tl, ub, prop) ==
  SearchPopped(dir, p.heap, own, opp, tiles, tl, ub, prop, p.ret,
               visited_find(own, p.ret.state), visited_find(opp, p.ret.state))

(* Pop, stale check, meeting check and expansion in one direction; ub   *)
(* is what reads through a dangling `node` give, prop the history of    *)
(* the new_g values of this direction.                                  *)
SearchStep(dir, heap, own, opp, tiles, tl, ub, prop) ==
  SearchPop(dir, heap_pop(heap), own, opp, tiles, tl, ub, prop)

(* ------------------------------------------------------------------ *)
(* Route summary                                                        *)
(* ------------------------------------------------------------------ *)
(* The accumulator calculate_statistics adds an edge's length to. *)
Classify(ee, ed) ==
  LET is_path == ed.use \in {USE_CYCLEWAY, USE_PATH, USE_FOOTWAY, USE_MOUNTAIN_BIKE}
      is_low_traffic == ed.use \in {USE_TRACK, USE_LIVING_STREET, USE_SERVICE_ROAD}
  IN IF ~ee.has_bike /\ ee.has_ped THEN "pushing"
     ELSE IF is_path /\ ~ee.has_car THEN "car_free"
     ELSE IF is_low_traffic THEN "car_free"
     ELSE IF ed.cycle_lane >= 2 THEN "separated"
     ELSE IF ee.has_car THEN "with_cars"
     ELSE "car_free"

(* The first edge of node n of tile t whose endpoint is next, which is  *)
(* the edge calculate_statistics accounts the pair to; NULL if none.    *)
StatEdge(t, n, next) ==
  LET m == {ei \in NodeEdges(t, n) :
              LET ee == get_edge_end(t, ei)
              IN ee.ok /\ ee.end_tile_id = next.tile_id
                       /\ ee.end_node_id = next.node_id}
  IN IF m = {} THEN NULL ELSE CHOOSE ei \in m : \A ej \in m : ei <= ej

ZeroDist == [car_free |-> 0, separated |-> 0, with_cars |-> 0, pushing |-> 0]

RECURSIVE StatLoop(_, _, _)
StatLoop(path, i, acc) ==
  IF i >= Len(path) THEN acc
  ELSE LET s == path[i]
           next == path[i + 1]
           lt == load_tile(acc.tiles, s.tile_id)
       IN IF lt.t = NULL \/ s.node_id >= Tile(lt.t).node_count
          THEN StatLoop(path, i + 1, [acc EXCEPT !.tiles = lt.tiles])
          ELSE LET ei == StatEdge(lt.t, s.node_id, next)
               IN IF ei = NULL
                  THEN StatLoop(path, i + 1, [acc EXCEPT !.tiles = lt.tiles])
                  ELSE LET ee == get_edge_end(lt.t, ei)
                           ed == get_edge_details(lt.t, ei)
                           k == Classify(ee, ed)
                       IN StatLoop(path, i + 1,
                            [tiles |-> lt.tiles,
                             dist |-> [acc.dist EXCEPT ![k] = @ + ed.length]])

(* calculate_statistics on the path: the accumulators and the cache. *)
calculate_statistics(path, tiles) ==
  StatLoop(path, 1, [tiles |-> tiles, dist |-> ZeroDist])

(* ------------------------------------------------------------------ *)
(* Path reconstruction                                                  *)
(* ------------------------------------------------------------------ *)
(* The parent walk of one direction from s: the states collected, and   *)
(* whether the walk was cut at MAX_PATH.                                *)
RECURSIVE Walk(_, _, _, _)
Walk(tbl, root, s, path) ==
  IF s.tile_id = 0 /\ s.node_id = 0 THEN [path |-> path, capped |-> FALSE]
  ELSE IF Len(path) >= MAX_PATH THEN [path |-> path, capped |-> TRUE]
  ELSE LET path1 == Append(path, s)
           ve == visited_find(tbl, s)
       IN IF ve = NULL THEN [path |-> path1, capped |-> FALSE]
          ELSE IF tbl[ve].parent = null_state /\ s = root
               THEN [path |-> path1, capped |-> FALSE]
          ELSE Walk(tbl, root, tbl[ve].parent, path1)

Reverse(q) == [i \in 1..Len(q) |-> q[Len(q) + 1 - i]]

(* fwd_path reversed, and bwd_path, of the meeting point mp. *)
ForwardPath(mp) ==
  LET w == Walk(g_visited_fwd, rt.start_state, mp, << >>)
  IN [path |-> Reverse(w.path), capped |-> w.capped]

BackwardPath(mp) ==
  LET ve == visited_find(g_visited_bwd, mp)
      s == IF ve # NULL THEN g_visited_bwd[ve].parent ELSE mp
  IN Walk(g_visited_bwd, rt.end_state, s, << >>)

(* g_path: fwd_path then bwd_path, cut at MAX_PATH states. *)
Combine(fwd, bwd) ==
  LET all == fwd \o bwd
  IN IF Len(all) > MAX_PATH THEN SubSeq(all, 1, MAX_PATH) ELSE all

(* ------------------------------------------------------------------ *)
(* The tile sets and queries the model runs on                          *)
(* ------------------------------------------------------------------ *)
(* A world is a road network of four junctions S, A, T, B (vertices 1   *)
(* to 4) written into level-2 tile files.  Its links are S-A, A-T, the  *)
(* direct S-T, and the detour A-B, B-T; every link is stored as two     *)
(* directed edge records, one at each end, as the tile producer does.   *)
(* In an asymmetric world the link A-T differs by direction: its record *)
(* at A is missing (asym = 1) or has an impassable surface (asym = 2).  *)
(* In the "detour" world S-T is a short steep footway and S-A-T a long  *)
(* way round over a flat footway and a steep cycleway.                  *)
EdgeKinds == {"cycleway", "road", "footway", "rough", "lane"}

(* The attributes of an edge record of a kind. *)
KindAttr(kind) ==
  CASE kind = "cycleway" ->
         [use |-> USE_CYCLEWAY, access |-> 6, surface |-> 0, cycle_lane |-> 0, grade |-> 0]
    [] kind = "road" ->
         [use |-> USE_ROAD, access |-> 7, surface |-> 0, cycle_lane |-> 0, grade |-> 0]
    [] kind = "footway" ->
         [use |-> USE_FOOTWAY, access |-> 2, surface |-> 1, cycle_lane |-> 0, grade |-> 0]
    [] kind = "rough" ->
         [use |-> USE_TRACK, access |-> 6, surface |-> 5, cycle_lane |-> 0, grade |-> 0]
    [] kind = "lane" ->
         [use |-> USE_ROAD, access |-> 6, surface |-> 0, cycle_lane |-> 2, grade |-> 0]
    [] kind = "motorway" ->
         [use |-> USE_ROAD, access |-> 1, surface |-> 0, cycle_lane |-> 0, grade |-> 0]
    [] kind = "impassable" ->
         [use |-> USE_TRACK, access |-> 6, surface |-> 7, cycle_lane |-> 0, grade |-> 0]
    [] kind = "steepfoot" ->
         [use |-> USE_FOOTWAY, access |-> 2, surface |-> 1, cycle_lane |-> 0, grade |-> 15]
    [] kind = "steep" ->
         [use |-> USE_CYCLEWAY, access |-> 6, surface |-> 0, cycle_lane |-> 0, grade |-> 15]

EdgeRecord(kind, length, level, to_tile, to_node) ==
  LET a == KindAttr(kind)
  IN [end_level |-> level, end_tile_id |-> to_tile, end_node_id |-> to_node,
      fwd |-> a.access, rev |-> 0, speed |-> 0, use |-> a.use, lanecount |-> 0,
      classification |-> 5, surface |-> a.surface, cycle_lane |-> a.cycle_lane,
      bike_network |-> 0, use_sidepath |-> 0, dismount |-> 0, shoulder |-> 0,
      length |-> length, weighted_grade |-> a.grade]

(* Where the four junctions lie: tile, node index, metres north/east. *)
Placements == {"tile1", "tile0", "mixed", "collide"}

Verts(place) ==
  CASE place = "tile1" ->
         << [tile |-> 1, node |-> 0, lat |-> 100, lon |-> 8100],
            [tile |-> 1, node |-> 1, lat |-> 100, lon |-> 8110],
            [tile |-> 1, node |-> 2, lat |-> 100, lon |-> 8120],
            [tile |-> 1, node |-> 3, lat |-> 104, lon |-> 8115] >>
    [] place = "tile0" ->
         << [tile |-> 0, node |-> 1, lat |-> 100, lon |-> 100],
            [tile |-> 0, node |-> 2, lat |-> 100, lon |-> 110],
            [tile |-> 0, node |-> 3, lat |-> 100, lon |-> 120],
            [tile |-> 0, node |-> 4, lat |-> 104, lon |-> 115] >>
    [] place = "mixed" ->
         << [tile |-> 1, node |-> 0, lat |-> 100, lon |-> 8005],
            [tile |-> 0, node |-> 0, lat |-> 100, lon |-> 7995],
            [tile |-> 1, node |-> 1, lat |-> 100, lon |-> 8015],
            [tile |-> 0, node |-> 1, lat |-> 104, lon |-> 7999] >>
    [] place = "collide" ->
         << [tile |-> 1, node |-> 3, lat |-> 100, lon |-> 8100],
            [tile |-> 1, node |-> 1, lat |-> 100, lon |-> 8110],
            [tile |-> 1, node |-> 4, lat |-> 100, lon |-> 8120],
            [tile |-> 1, node |-> 0, lat |-> 104, lon |-> 8115] >>
    [] place = "detour" ->
         << [tile |-> 1, node |-> 0, lat |-> 100, lon |-> 8100],
            [tile |-> 1, node |-> 1, lat |-> 100, lon |-> 8080],
            [tile |-> 1, node |-> 2, lat |-> 100, lon |-> 8120],
            [tile |-> 1, node |-> 3, lat |-> 104, lon |-> 8115] >>

(* The lengths of the links in metres. *)
Lengths(place) ==
  IF place = "detour" THEN [st |-> 20, sa |-> 21, at |-> 60, via |-> 7]
  ELSE [st |-> 24, sa |-> 11, at |-> 11, via |-> 7]

(* The directed edge records of a world, in the order they are stored   *)
(* at their node: [from, to] are vertices.                              *)
Link(a, b, kind, length, both) ==
  IF kind = "none" THEN << >>
  ELSE <<[from |-> a, to |-> b, kind |-> kind, length |-> length]>>
       \o (IF both THEN <<[from |-> b, to |-> a, kind |-> kind, length |-> length]>>
           ELSE << >>)

WorldEdges(w) ==
  (IF w.par = 1 THEN <<[from |-> 1, to |-> 2, kind |-> "motorway", length |-> 30]>>
   ELSE << >>)
  \o Link(1, 3, w.st, Lengths(w.place).st, TRUE)
  \o Link(1, 2, w.sa, Lengths(w.place).sa, TRUE)
  \o Link(3, 2, w.at, Lengths(w.place).at, w.asym = 0)
  \o (IF w.asym = 2 THEN Link(2, 3, "impassable", Lengths(w.place).at, FALSE) ELSE << >>)
  \o Link(2, 4, w.via, Lengths(w.place).via, TRUE)
  \o Link(4, 3, w.via, Lengths(w.place).via, TRUE)

(* The vertex stored as node n of tile t, or 0. *)
VertexAt(place, t, n) ==
  LET vs == {v \in 1..4 : Verts(place)[v].tile = t /\ Verts(place)[v].node = n}
  IN IF vs = {} THEN 0 ELSE CHOOSE v \in vs : TRUE

(* The edge records stored at node n of tile t: the world's edges from  *)
(* its junction, then (at S) one edge into a tile that has no file and  *)
(* one edge to another hierarchy level.                                 *)
NodeRecords(w, t, n) ==
  LET v == VertexAt(w.place, t, n)
      own == SelectSeq(WorldEdges(w), LAMBDA e : e.from = v)
      recs == [i \in 1..Len(own) |->
                 EdgeRecord(own[i].kind, own[i].length, 2,
                            Verts(w.place)[own[i].to].tile,
                            Verts(w.place)[own[i].to].node)]
  IN IF v = 1 THEN recs \o <<EdgeRecord("cycleway", 5, 2, 2, 0),
                             EdgeRecord("cycleway", 5, 1, t, n)>>
     ELSE recs

RECURSIVE TileEdges(_, _, _, _)
TileEdges(w, t, n, nc) ==
  IF n >= nc THEN << >> ELSE NodeRecords(w, t, n) \o TileEdges(w, t, n + 1, nc)

RECURSIVE EdgeIndex(_, _, _)
EdgeIndex(w, t, n) ==
  IF n = 0 THEN 0 ELSE EdgeIndex(w, t, n - 1) + Len(NodeRecords(w, t, n - 1))

(* The file of tile t: absent when no junction lies in the tile. *)
TileFile(w, t) ==
  LET ns == {Verts(w.place)[v].node : v \in {u \in 1..4 : Verts(w.place)[u].tile = t}}
      nc == IF ns = {} THEN 0 ELSE 1 + CHOOSE n \in ns : \A m \in ns : m <= n
      edges == TileEdges(w, t, 0, nc)
      nodes == [i \in 1..nc |->
                  LET v == VertexAt(w.place, t, i - 1)
                  IN [lat |-> IF v = 0 THEN 0 ELSE Verts(w.place)[v].lat,
                      lon |-> IF v = 0 THEN t * LEVEL_2_SIZE ELSE Verts(w.place)[v].lon,
                      edge_index |-> EdgeIndex(w, t, i - 1),
                      edge_count |-> Len(NodeRecords(w, t, i - 1))]]
  IN IF ns = {} THEN NoFile
     ELSE [raw_size |-> HEADER_SIZE + nc * NODE_SIZE + Len(edges) * EDGE_SIZE,
           node_count |-> nc, edge_count |-> Len(edges), trans_count |-> 0,
           nodes |-> nodes, edges |-> edges]

Disk(w) == [t \in 0..2 |-> TileFile(w, t)]

(* The coordinates a query may name: a junction, a point in S's tile    *)
(* more than 7 km east of every junction, or a point in a tile without  *)
(* a file.                                                              *)
QueryPoint(place, q) ==
  CASE q = "S" -> [lat |-> Verts(place)[1].lat, lon |-> Verts(place)[1].lon]
    [] q = "A" -> [lat |-> Verts(place)[2].lat, lon |-> Verts(place)[2].lon]
    [] q = "T" -> [lat |-> Verts(place)[3].lat, lon |-> Verts(place)[3].lon]
    [] q = "far" -> [lat |-> Verts(place)[1].lat,
                     lon |-> Verts(place)[1].tile * LEVEL_2_SIZE + 7500]
    [] q = "gone" -> [lat |-> 100, lon |-> 2 * LEVEL_2_SIZE + 100]

Args(place, from, to, bike, ap, ac) ==
  [from_lat |-> QueryPoint(place, from).lat, from_lon |-> QueryPoint(place, from).lon,
   to_lat |-> QueryPoint(place, to).lat, to_lon |-> QueryPoint(place, to).lon,
   avoid_pushing |-> ap, avoid_cars |-> ac, use_roads |-> 25, bicycle_type |-> bike]

World(place, st, sa, at, via, par, asym) ==
  [place |-> place, st |-> st, sa |-> sa, at |-> at, via |-> via,
   par |-> par, asym |-> asym]

(* The inputs: every network under the default options from S to T, a   *)
(* symmetric network under every option, the other queries, and the     *)
(* detour world with and without avoid_pushing.                         *)
Inputs ==
  { [w |-> World(pl, st, sa, at, via, par, asym), q |-> Args(pl, "S", "T", 3, 0, 0)] :
      pl \in Placements, st \in {"none", "road"}, sa \in EdgeKinds,
      at \in {"cycleway", "footway"}, via \in {"none", "cycleway"},
      par \in {0, 1}, asym \in {0, 1, 2} }
  \cup
  { [w |-> World("tile1", "road", sa, at, "none", 0, 0), q |-> Args("tile1", "S", "T", b, ap, ac)] :
      sa \in EdgeKinds, at \in EdgeKinds, b \in 0..3, ap \in {0, 1}, ac \in {0, 1} }
  \cup
  { [w |-> World(pl, "road", "cycleway", at, "none", 0, 0), q |-> Args(pl, from, to, 3, 0, 0)] :
      pl \in Placements, at \in {"cycleway", "none"},
      from \in {"S", "A", "T", "far", "gone"}, to \in {"S", "T", "far", "gone"} }
  \cup
  { [w |-> World("detour", "steepfoot", "footway", "steep", "none", 0, 0),
     q |-> Args("detour", "S", "T", 3, ap, 0)] : ap \in {0, 1} }

(* ------------------------------------------------------------------ *)
(* main() and route() as a state machine                                *)
(* ------------------------------------------------------------------ *)
NoRoute ==
  [start_tile_id |-> 0, start_node |-> 0, end_tile_id |-> 0, end_node |-> 0,
   start_state |-> null_state, end_state |-> null_state,
   start_lat |-> 0, start_lon |-> 0,
   iterations |-> 0, max_iterations |-> 0,
   meeting_point |-> null_state, best_total_cost |-> Inf,
   fwd_len |-> 0, path_len |-> 0]

(* The last call made on a visited table or a heap on its own: its      *)
(* arguments and the table before it.                                   *)
NoCall ==
  [op |-> "none", state |-> null_state, g |-> 0, parent |-> null_state,
   parent_edge |-> 0, before |-> visited_clear]

(* The calls made on one heap on its own: which heap, the last call,   *)
(* the heap before it, the entries pushed (and not dropped) and not yet *)
(* popped, and the f of the pop before the last call when that call was *)
(* a pop too (-1 otherwise).                                            *)
NoHeapCall ==
  [dir |-> "none", op |-> "none", before |-> << >>, held |-> {},
   dropped |-> FALSE, prev_f |-> -1]

(* The last edge costed on its own: its decoded records and the cost    *)
(* the expansion adds for it.                                           *)
NoCostCall ==
  [done |-> FALSE, length |-> 0, use |-> 0, cost |-> 0,
   pushing |-> FALSE, ridden |-> 0,
   grade |-> 0, surface |-> 0, dismount |-> 0, speed |-> 0]

(* No new_g computed yet for any state. *)
NoProposals ==
  [s \in [tile_id : 0..MaxTileId, node_id : 0..MaxNodeId] |-> Inf]

NoHist ==
  [heap_dropped |-> FALSE, visited_dropped |-> FALSE, met |-> FALSE,
   guard_fired |-> FALSE, cap_reached |-> FALSE, walk_capped |-> FALSE,
   searched |-> FALSE, pops |-> 0,
   load_id |-> 0, load_ret |-> 0, load_reads |-> {},
   run |-> 0, first |-> [returned |-> FALSE, pushing |-> 0],
   stale_use |-> FALSE, fired_best |-> 0,
   proposed_fwd |-> NoProposals, proposed_bwd |-> NoProposals, lowered |-> FALSE,
   call |-> NoCall, heap_call |-> NoHeapCall,
   stale_fwd |-> FALSE, stale_bwd |-> FALSE, checked |-> 0,
   load_before |-> << >>, born |-> [t \in 0..MaxTileId |-> 0], hit |-> FALSE,
   cost_call |-> NoCostCall, min_total |-> Inf, full_changed |-> FALSE]

Init ==
  /\ \E in \in Inputs : disk = Disk(in.w) /\ args = in.q
  /\ pc = "main"
  /\ g_tiles = << >>
  /\ g_heap_fwd = << >>
  /\ g_heap_bwd = << >>
  /\ g_visited_fwd = visited_clear
  /\ g_visited_bwd = visited_clear
  /\ rt = NoRoute
  /\ g_path = << >>
  /\ g_dist = ZeroDist
  /\ ret = [error |-> "", exit |-> -1, coords |-> << >>]
  /\ allocated = {}
  /\ hist = NoHist

(* The tile a coordinate lies in: row * 1440 + column. *)
TileIdOf(lat, lon) ==
  (lat \div LEVEL_2_SIZE) * TILES_PER_ROW + (lon \div LEVEL_2_SIZE)

(* main up to the call of route(): load both tiles, snap both ends. *)
MainLoad ==
  /\ pc = "main"
  /\ LET from_tile_id == TileIdOf(args.from_lat, args.from_lon)
         to_tile_id == TileIdOf(args.to_lat, args.to_lon)
         l1 == load_tile(g_tiles, from_tile_id)
         l2 == load_tile(l1.tiles, to_tile_id)
     IN /\ g_tiles' = l2.tiles
        /\ allocated' = AfterLoads(allocated \cup WorkBuffers, g_tiles, l2.tiles)
        /\ IF l1.t = NULL \/ l2.t = NULL
           THEN /\ ret' = [error |-> "tile_load_failed", exit |-> 1, coords |-> << >>]
                /\ pc' = "done"
                /\ rt' = rt
           ELSE /\ ret' = ret
                /\ pc' = "route"
                /\ rt' = [rt EXCEPT
                     !.start_tile_id = from_tile_id,
                     !.start_node = find_nearest_node(l1.t, args.from_lat, args.from_lon),
                     !.end_tile_id = to_tile_id,
                     !.end_node = find_nearest_node(l2.t, args.to_lat, args.to_lon)]
  /\ UNCHANGED <<disk, args, g_heap_fwd, g_heap_bwd, g_visited_fwd, g_visited_bwd,
                 g_path, g_dist, hist>>

(* The iteration cap of route() for an initial distance in metres. *)
MaxIterations(init_dist) ==
  Min(MAX_ITERATIONS, Max(MIN_ITERATIONS, init_dist * 30))

(* route() from its entry to the head of the search loop. *)
RouteStart ==
  /\ pc = "route"
  /\ LET l1 == load_tile(g_tiles, rt.start_tile_id)
         l2 == load_tile(l1.tiles, rt.end_tile_id)
         bad == \/ l1.t = NULL \/ l2.t = NULL
                \/ rt.start_node >= Tile(l1.t).node_count
                \/ rt.end_node >= Tile(l2.t).node_count
     IN /\ g_tiles' = l2.tiles
        /\ allocated' = AfterLoads(allocated, g_tiles, l2.tiles)
        /\ g_path' = << >>
        /\ g_dist' = ZeroDist
        /\ IF bad
           THEN /\ pc' = "output"
                /\ rt' = [rt EXCEPT !.path_len = 0]
                /\ g_heap_fwd' = << >>
                /\ g_heap_bwd' = << >>
                /\ g_visited_fwd' = visited_clear
                /\ g_visited_bwd' = visited_clear
                /\ hist' = hist
           ELSE
             LET sn == Node(l1.t, rt.start_node)
                 start_state == State(rt.start_tile_id, rt.start_node)
                 end_state == State(rt.end_tile_id, rt.end_node)
                 init_dist == haversine(sn.lat, sn.lon, args.to_lat, args.to_lon)
                 h == Heuristic(sn.lat, sn.lon, args.to_lat, args.to_lon)
                 init_fwd == [f |-> h, g |-> 0, dist |-> 0, state |-> start_state,
                              parent |-> null_state, parent_edge |-> 0]
                 init_bwd == [f |-> h, g |-> 0, dist |-> 0, state |-> end_state,
                              parent |-> null_state, parent_edge |-> 0]
             IN /\ pc' = "fwd"
                /\ g_heap_fwd' = heap_push(<< >>, init_fwd)
                /\ g_heap_bwd' = heap_push(<< >>, init_bwd)
                /\ g_visited_fwd' = visited_insert(visited_clear, start_state, 0, null_state, 0)
                /\ g_visited_bwd' = visited_insert(visited_clear, end_state, 0, null_state, 0)
                /\ rt' = [rt EXCEPT !.start_state = start_state, !.end_state = end_state,
                                    !.start_lat = sn.lat, !.start_lon = sn.lon,
                                    !.iterations = 0,
                                    !.max_iterations = MaxIterations(init_dist),
                                    !.meeting_point = null_state,
                                    !.best_total_cost = Inf]
                /\ hist' = [hist EXCEPT !.searched = TRUE,
                                        !.proposed_fwd[start_state] = 0,
                                        !.proposed_bwd[end_state] = 0]
  /\ UNCHANGED <<disk, args, ret>>

(* The search loop's condition without the iteration cap. *)
LoopConditionNoCap == Len(g_heap_fwd) > 0 \/ Len(g_heap_bwd) > 0

(* The condition of the search loop. *)
LoopCondition ==
  /\ (Len(g_heap_fwd) > 0 \/ Len(g_heap_bwd) > 0)
  /\ rt.iterations < rt.max_iterations

(* The loop test, and the forward half of one loop pass. *)
ForwardStep ==
  /\ pc = "fwd"
  /\ IF ~LoopCondition
     THEN /\ pc' = "reconstruct"
          /\ hist' = [hist EXCEPT !.cap_reached =
                        Len(g_heap_fwd) > 0 \/ Len(g_heap_bwd) > 0]
          /\ UNCHANGED <<g_tiles, g_heap_fwd, g_visited_fwd, rt, allocated>>
     ELSE IF Len(g_heap_fwd) = 0
     THEN /\ pc' = "bwd"
          /\ UNCHANGED <<g_tiles, g_heap_fwd, g_visited_fwd, rt, allocated, hist>>
     ELSE
      \E ub \in DanglingReads :
       LET r == SearchStep("fwd", g_heap_fwd, g_visited_fwd, g_visited_bwd,
                           g_tiles, [lat |-> args.to_lat, lon |-> args.to_lon], ub,
                           hist.proposed_fwd)
           better == r.met /\ r.total < rt.best_total_cost
       IN /\ pc' = "bwd"
          /\ g_heap_fwd' = r.heap
          /\ g_visited_fwd' = r.visited
          /\ g_tiles' = r.tiles
          /\ allocated' = AfterLoads(allocated, g_tiles, r.tiles)
          /\ rt' = [rt EXCEPT
               !.iterations = @ + 1,
               !.best_total_cost = IF better THEN r.total ELSE @,
               !.meeting_point = IF better THEN r.cur.state ELSE @]
          /\ hist' = [hist EXCEPT
               !.heap_dropped = @ \/ r.heap_dropped,
               !.full_changed = @ \/ r.full_changed,
               !.visited_dropped = @ \/ r.visited_dropped,
               !.stale_use = @ \/ r.stale_use,
               !.proposed_fwd = r.proposed,
               !.stale_fwd = @ \/ r.stale,
               !.checked = IF r.stale THEN @ ELSE @ + 1,
               !.lowered = @ \/ r.lowered,
               !.met = @ \/ r.met,
               !.min_total = IF r.met THEN Min(@, r.total) ELSE @,
               !.pops = @ + 1]
  /\ UNCHANGED <<disk, args, g_heap_bwd, g_visited_bwd, g_path, g_dist, ret>>

(* The backward half of one loop pass. *)
BackwardStep ==
  /\ pc = "bwd"
  /\ IF Len(g_heap_bwd) = 0
     THEN /\ pc' = "guard"
          /\ UNCHANGED <<g_tiles, g_heap_bwd, g_visited_bwd, rt, allocated, hist>>
     ELSE
      \E ub \in DanglingReads :
       LET r == SearchStep("bwd", g_heap_bwd, g_visited_bwd, g_visited_fwd,
                           g_tiles, [lat |-> rt.start_lat, lon |-> rt.start_lon], ub,
                           hist.proposed_bwd)
           better == r.met /\ r.total < rt.best_total_cost
       IN /\ pc' = IF r.skipped THEN "fwd" ELSE "guard"
          /\ g_heap_bwd' = r.heap
          /\ g_visited_bwd' = r.visited
          /\ g_tiles' = r.tiles
          /\ allocated' = AfterLoads(allocated, g_tiles, r.tiles)
          /\ rt' = [rt EXCEPT
               !.iterations = @ + 1,
               !.best_total_cost = IF better THEN r.total ELSE @,
               !.meeting_point = IF better THEN r.cur.state ELSE @]
          /\ hist' = [hist EXCEPT
               !.heap_dropped = @ \/ r.heap_dropped,
               !.full_changed = @ \/ r.full_changed,
               !.visited_dropped = @ \/ r.visited_dropped,
               !.stale_use = @ \/ r.stale_use,
               !.proposed_bwd = r.proposed,
               !.stale_bwd = @ \/ r.stale,
               !.checked = IF r.stale THEN @ ELSE @ + 1,
               !.lowered = @ \/ r.lowered,
               !.met = @ \/ r.met,
               !.min_total = IF r.met THEN Min(@, r.total) ELSE @,
               !.pops = @ + 1]
  /\ UNCHANGED <<disk, args, g_heap_fwd, g_visited_fwd, g_path, g_dist, ret>>

(* The early-termination test at the end of a loop pass. *)
GuardFires ==
  /\ rt.meeting_point.tile_id # 0
  /\ MinF(g_heap_fwd) + MinF(g_heap_bwd) >= rt.best_total_cost

Guard ==
  /\ pc = "guard"
  /\ pc' = IF GuardFires THEN "reconstruct" ELSE "fwd"
  /\ hist' = [hist EXCEPT !.guard_fired = GuardFires,
                          !.fired_best = IF GuardFires THEN rt.best_total_cost ELSE @]
  /\ UNCHANGED <<disk, args, g_tiles, g_heap_fwd, g_heap_bwd, g_visited_fwd,
                 g_visited_bwd, rt, g_path, g_dist, ret, allocated>>

(* route() after the loop: stitch the path, compute the summary.  The   *)
(* two walk buffers are allocated and freed within this step.           *)
Reconstruct ==
  /\ pc = "reconstruct"
  /\ pc' = "output"
  /\ IF rt.meeting_point.tile_id = 0
     THEN /\ rt' = [rt EXCEPT !.path_len = 0]
          /\ UNCHANGED <<g_path, g_dist, g_tiles, allocated, hist>>
     ELSE
       LET fwd == ForwardPath(rt.meeting_point)
           bwd == BackwardPath(rt.meeting_point)
           path == Combine(fwd.path, bwd.path)
           st == calculate_statistics(path, g_tiles)
       IN /\ g_path' = path
          /\ g_dist' = st.dist
          /\ g_tiles' = st.tiles
          /\ allocated' = AfterLoads(allocated, g_tiles, st.tiles)
          /\ rt' = [rt EXCEPT !.fwd_len = Len(fwd.path), !.path_len = Len(path)]
          /\ hist' = [hist EXCEPT !.walk_capped =
                        \/ fwd.capped \/ bwd.capped
                        \/ Len(fwd.path) + Len(bwd.path) > MAX_PATH]
  /\ UNCHANGED <<disk, args, g_heap_fwd, g_heap_bwd, g_visited_fwd, g_visited_bwd, ret>>

(* The coordinates main prints: one per path state whose tile loads. *)
RECURSIVE Coords(_, _, _)
Coords(path, i, tiles) ==
  IF i > Len(path) THEN [coords |-> << >>, tiles |-> tiles]
  ELSE LET lt == load_tile(tiles, path[i].tile_id)
           rest == Coords(path, i + 1, lt.tiles)
       IN IF lt.t # NULL /\ path[i].node_id < Tile(lt.t).node_count
          THEN [coords |-> <<[lat |-> Node(lt.t, path[i].node_id).lat,
                              lon |-> Node(lt.t, path[i].node_id).lon]>> \o rest.coords,
                tiles |-> rest.tiles]
          ELSE rest

(* main after route() returned: the error object and return 1, or the   *)
(* route, the cleanup of every cached tile and working buffer, and      *)
(* return 0.                                                            *)
MainOutput ==
  /\ pc = "output"
  /\ pc' = "done"
  /\ IF rt.path_len = 0
     THEN /\ ret' = [error |-> "no_path", exit |-> 1, coords |-> << >>]
          /\ g_tiles' = g_tiles
          /\ allocated' = allocated
     ELSE LET c == Coords(g_path, 1, g_tiles)
          IN /\ ret' = [error |-> "", exit |-> 0, coords |-> c.coords]
             /\ g_tiles' = c.tiles
             /\ allocated' = (AfterLoads(allocated, g_tiles, c.tiles)
                                \ TileBuffers(c.tiles)) \ WorkBuffers
  /\ UNCHANGED <<disk, args, g_heap_fwd, g_heap_bwd, g_visited_fwd, g_visited_bwd,
                 rt, g_path, g_dist, hist>>

Next ==
  \/ MainLoad
  \/ RouteStart
  \/ ForwardStep
  \/ BackwardStep
  \/ Guard
  \/ Reconstruct
  \/ MainOutput

Spec == Init /\ [][Next]_vars

(* ------------------------------------------------------------------ *)
(* The same query run twice: avoid_pushing = 0, then avoid_pushing = 1  *)
(* ------------------------------------------------------------------ *)
(* After the process of a query with avoid_pushing = 0 ended, a second  *)
(* process runs main() on the same tiles and coordinates with           *)
(* avoid_pushing = 1: argv[6] is the only argument that differs, every  *)
(* global starts as in a fresh process.  hist keeps what the first      *)
(* process printed.                                                     *)
Rerun ==
  /\ pc = "done"
  /\ hist.run = 0
  /\ args.avoid_pushing = 0
  /\ args' = [args EXCEPT !.avoid_pushing = 1]
  /\ pc' = "main"
  /\ g_tiles' = << >>
  /\ g_heap_fwd' = << >>
  /\ g_heap_bwd' = << >>
  /\ g_visited_fwd' = visited_clear
  /\ g_visited_bwd' = visited_clear
  /\ rt' = NoRoute
  /\ g_path' = << >>
  /\ g_dist' = ZeroDist
  /\ ret' = [error |-> "", exit |-> -1, coords |-> << >>]
  /\ allocated' = {}
  /\ hist' = [NoHist EXCEPT !.run = 1,
                            !.first = [returned |-> rt.path_len > 0,
                                       pushing |-> g_dist.pushing]]
  /\ UNCHANGED disk

NextPair ==
  \/ Next
  \/ Rerun

SpecPair == Init /\ [][NextPair]_vars

(* ------------------------------------------------------------------ *)
(* The search loop continued past the early-termination guard           *)
(* ------------------------------------------------------------------ *)
(* The test at the end of a loop pass in a harness that notes the first *)
(* time the guard fires, with the best_total_cost of that moment, and   *)
(* goes on with the loop instead of breaking.                           *)
GuardContinue ==
  /\ pc = "guard"
  /\ pc' = "fwd"
  /\ hist' = [hist EXCEPT
       !.guard_fired = @ \/ GuardFires,
       !.fired_best = IF GuardFires /\ ~hist.guard_fired
                      THEN rt.best_total_cost ELSE @]
  /\ UNCHANGED <<disk, args, g_tiles, g_heap_fwd, g_heap_bwd, g_visited_fwd,
                 g_visited_bwd, rt, g_path, g_dist, ret, allocated>>

NextContinue ==
  \/ MainLoad
  \/ RouteStart
  \/ ForwardStep
  \/ BackwardStep
  \/ GuardContinue

SpecContinue == Init /\ [][NextContinue]_vars

(* ------------------------------------------------------------------ *)
(* Vocabulary of the properties                                         *)
(* ------------------------------------------------------------------ *)
(* route() returned a path to main. *)
Returned == pc = "done" /\ rt.path_len > 0

(* The indices i of the consecutive pairs (g_path[i], g_path[i+1]). *)
Pairs == 1..(Len(g_path) - 1)

(* The state names a node of a tile that has a file. *)
HasNode(s) ==
  /\ s.tile_id \in DOMAIN disk
  /\ disk[s.tile_id].raw_size >= 0
  /\ s.node_id < disk[s.tile_id].node_count

(* The states of the graph on disk. *)
States ==
  {State(t, n) : t \in 0..MaxTileId, n \in 0..MaxNodeId} \cap
  {s \in [tile_id : 0..MaxTileId, node_id : 0..MaxNodeId] : HasNode(s)}

(* The edge records node s owns whose endpoint is state n. *)
EdgesTo(s, n) ==
  IF ~HasNode(s) THEN {}
  ELSE {ei \in NodeEdges(s.tile_id, s.node_id) :
          /\ get_edge_end(s.tile_id, ei).ok
          /\ get_edge_end(s.tile_id, ei).end_tile_id = n.tile_id
          /\ get_edge_end(s.tile_id, ei).end_node_id = n.node_id}

(* Edge record ei of tile t passes every gate of the expansion loop. *)
Expandable(t, ei) ==
  /\ get_edge_end(t, ei).ok
  /\ get_edge_end(t, ei).end_level = 2
  /\ AccessAllowed(get_edge_end(t, ei))
  /\ get_edge_details(t, ei).ok
  /\ SurfaceAllowedFwd(get_edge_details(t, ei))
  /\ SurfaceAllowedBwd(get_edge_details(t, ei))
  /\ HasNode(State(get_edge_end(t, ei).end_tile_id, get_edge_end(t, ei).end_node_id))

(* The expandable edges of the graph with their expansion costs. *)
GraphEdges ==
  UNION { { [from |-> s,
             to |-> State(get_edge_end(s.tile_id, ei).end_tile_id,
                          get_edge_end(s.tile_id, ei).end_node_id),
             cost |-> ExpansionCost(get_edge_end(s.tile_id, ei),
                                    get_edge_details(s.tile_id, ei))] :
            ei \in {ej \in NodeEdges(s.tile_id, s.node_id) : Expandable(s.tile_id, ej)} } :
          s \in States }

SetMin(S) == CHOOSE x \in S : \A y \in S : x <= y

(* Bellman-Ford: k rounds of relaxation of the distances d over E. *)
RECURSIVE Relax(_, _, _)
Relax(d, E, k) ==
  IF k = 0 THEN d
  ELSE Relax([v \in DOMAIN d |->
                SetMin({d[v]} \cup {d[e.from] + e.cost : e \in {x \in E : x.to = v}})],
             E, k - 1)

(* The minimum total cost over all paths of expandable edges from a to b. *)
MinCost(a, b) ==
  Relax([v \in States |-> IF v = a THEN 0 ELSE Inf], GraphEdges, Cardinality(States))[b]

(* The cost of the cheapest expandable edge from a to b, Inf if none. *)
StepCost(a, b, E) ==
  SetMin({Inf} \cup {e.cost : e \in {x \in E : x.from = a /\ x.to = b}})

RECURSIVE PathCostFrom(_, _, _)
PathCostFrom(path, i, E) ==
  IF i >= Len(path) THEN 0
  ELSE Min(Inf, StepCost(path[i], path[i + 1], E) + PathCostFrom(path, i + 1, E))

(* The total expansion cost of a path. *)
PathCost(path) == PathCostFrom(path, 1, GraphEdges)

(* Every expandable edge has a reverse edge of equal cost, and costs    *)
(* are positive.                                                        *)
SymmetricGraph ==
  \A e \in GraphEdges :
     /\ e.cost > 0
     /\ \E r \in GraphEdges : r.from = e.to /\ r.to = e.from /\ r.cost = e.cost

(* The heuristic of a state towards a target point. *)
HeuristicOf(s, lat, lon) ==
  Heuristic(Node(s.tile_id, s.node_id).lat, Node(s.tile_id, s.node_id).lon, lat, lon)

(* Both searches' heuristics are consistent over the expandable edges   *)
(* and zero at their targets.                                           *)
ConsistentHeuristic ==
  /\ \A e \in GraphEdges :
        /\ HeuristicOf(e.from, args.to_lat, args.to_lon)
             <= e.cost + HeuristicOf(e.to, args.to_lat, args.to_lon)
        /\ HeuristicOf(e.from, rt.start_lat, rt.start_lon)
             <= e.cost + HeuristicOf(e.to, rt.start_lat, rt.start_lon)
  /\ HeuristicOf(rt.end_state, args.to_lat, args.to_lon) = 0
  /\ HeuristicOf(rt.start_state, rt.start_lat, rt.start_lon) = 0

(* No heap push and no visited insertion was dropped, the iteration    *)
(* cap was not reached and no walk was cut at MAX_PATH.                 *)
NoOverflow ==
  /\ ~hist.heap_dropped
  /\ ~hist.visited_dropped
  /\ ~hist.cap_reached
  /\ ~hist.walk_capped

(* ------------------------------------------------------------------ *)
(* Properties                                                           *)
(* ------------------------------------------------------------------ *)

(* C1: on a symmetric graph with positive costs and a consistent        *)
(* heuristic, when route() stopped through the early-termination guard  *)
(* without overflow, the cost of the returned path is the minimum cost  *)
(* over all start-to-goal paths of expandable edges.                    *)
C1_GuardOptimal ==
  (Returned /\ hist.guard_fired /\ NoOverflow
     /\ SymmetricGraph /\ ConsistentHeuristic)
  => PathCost(g_path) = MinCost(rt.start_state, rt.end_state)

(* C2: for every consecutive pair of the returned path, the first       *)
(* state's node owns an edge to the second state with bicycle or        *)
(* pedestrian access.                                                   *)
C2_PathEdgesOwned ==
  Returned =>
    \A i \in Pairs :
       \E ei \in EdgesTo(g_path[i], g_path[i + 1]) :
          AccessAllowed(get_edge_end(g_path[i].tile_id, ei))

(* C3: a returned path starts at the snapped start state, ends at the   *)
(* snapped goal state and holds the meeting point exactly once.         *)
C3_PathComplete ==
  Returned =>
    /\ g_path[1] = rt.start_state
    /\ g_path[Len(g_path)] = rt.end_state
    /\ Cardinality({i \in 1..Len(g_path) : g_path[i] = rt.meeting_point}) = 1

(* The edge record the search traversed for pair i of the path: in the  *)
(* forward half the parent_edge recorded for g_path[i+1], an edge of    *)
(* g_path[i]'s tile; in the backward half the parent_edge recorded for  *)
(* g_path[i], an edge of g_path[i+1]'s tile.  NULL without a record.    *)
SearchEdge(i) ==
  IF i < rt.fwd_len
  THEN (IF visited_find(g_visited_fwd, g_path[i + 1]) = NULL THEN NoEdge
        ELSE [ok |-> TRUE, t |-> g_path[i].tile_id,
              ei |-> g_visited_fwd[visited_find(g_visited_fwd, g_path[i + 1])].parent_edge])
  ELSE (IF visited_find(g_visited_bwd, g_path[i]) = NULL THEN NoEdge
        ELSE [ok |-> TRUE, t |-> g_path[i + 1].tile_id,
              ei |-> g_visited_bwd[visited_find(g_visited_bwd, g_path[i])].parent_edge])

(* The length of the edge the search traversed for pair i. *)
TraversedLength(i) ==
  IF ~SearchEdge(i).ok THEN 0
  ELSE get_edge_details(SearchEdge(i).t, SearchEdge(i).ei).length

RECURSIVE TraversedSum(_)
TraversedSum(i) ==
  IF i >= Len(g_path) THEN 0 ELSE TraversedLength(i) + TraversedSum(i + 1)

(* C4: the four summary accumulators add up to the summed lengths of    *)
(* the edges the search traversed along the returned path (stated for   *)
(* the runs without overflow, where every pair has a recorded edge).    *)
C4_SummaryTotal ==
  (Returned /\ NoOverflow) =>
    g_dist.car_free + g_dist.separated + g_dist.with_cars + g_dist.pushing
      = TraversedSum(1)

(* The edge records of g_path[i] that lead to g_path[i+1] with bicycle  *)
(* or pedestrian access: the edges of pair i in the direction of travel. *)
TravelEdges(i) ==
  {ei \in EdgesTo(g_path[i], g_path[i + 1]) :
     AccessAllowed(get_edge_end(g_path[i].tile_id, ei))}

(* C5: every consecutive pair of the returned path that has an edge in  *)
(* the direction of travel has one whose surface is at most             *)
(* kWorstAllowedSurface[bicycle_type].                                  *)
C5_SurfaceOnPath ==
  Returned =>
    \A i \in Pairs :
       TravelEdges(i) # {} =>
         \E ei \in TravelEdges(i) :
            get_edge_details(g_path[i].tile_id, ei).surface
              <= kWorstAllowedSurface[args.bicycle_type + 1]

(* C6: once the search ran, route() returned 0 and main printed the     *)
(* no_path error exactly if no popped state was found in the opposite   *)
(* visited table.                                                       *)
C6_NoPathIffNoMeeting ==
  (pc = "done" /\ hist.searched) =>
    ((rt.path_len = 0 /\ ret.error = "no_path" /\ ret.exit # 0) <=> ~hist.met)

(* The header counts of a tile file place the node array, or the edge   *)
(* array, beyond its buffer.                                            *)
NodeArrayBeyond(file) == HEADER_SIZE + NODE_SIZE * file.node_count > file.raw_size
EdgeArrayBeyond(file) == edges_offset(file) + EDGE_SIZE * file.edge_count > file.raw_size

(* C7: load_tile returned null for a buffer below 272 bytes or whose    *)
(* header counts lie beyond the buffer, and read no node record at an   *)
(* offset at or past raw_size.                                          *)
C7_LoadTileRejects ==
  (pc = "load" /\ hist.pops > 0 /\ disk[hist.load_id].raw_size >= 0) =>
    /\ (\/ disk[hist.load_id].raw_size < HEADER_SIZE
        \/ NodeArrayBeyond(disk[hist.load_id])
        \/ EdgeArrayBeyond(disk[hist.load_id]))
       => hist.load_ret = NULL
    /\ \A off \in hist.load_reads : off < disk[hist.load_id].raw_size

(* The snapping radius of the failure model, in metres. *)
kSnapRadius == 5 * 1000

(* Some node of the tile of the point lies within the snapping radius. *)
NodeNear(lat, lon) ==
  /\ TileIdOf(lat, lon) \in DOMAIN disk
  /\ disk[TileIdOf(lat, lon)].raw_size >= 0
  /\ \E n \in 0..(disk[TileIdOf(lat, lon)].node_count - 1) :
        haversine(lat, lon, Node(TileIdOf(lat, lon), n).lat,
                  Node(TileIdOf(lat, lon), n).lon) <= kSnapRadius

(* The distance from a requested point to the state snapped to. *)
SnapDistance(lat, lon, s) ==
  haversine(lat, lon, Node(s.tile_id, s.node_id).lat, Node(s.tile_id, s.node_id).lon)

(* C8: a query without a node within 5 km of its start or goal ends     *)
(* with an error and no path, and a search only starts from snapped     *)
(* nodes within 5 km of the requested coordinates.                      *)
C8_SnapRadius ==
  /\ (pc = "done" /\ ~(NodeNear(args.from_lat, args.from_lon)
                       /\ NodeNear(args.to_lat, args.to_lon)))
     => (ret.exit # 0 /\ ret.coords = << >>)
  /\ hist.searched =>
       /\ SnapDistance(args.from_lat, args.from_lon, rt.start_state) <= kSnapRadius
       /\ SnapDistance(args.to_lat, args.to_lon, rt.end_state) <= kSnapRadius

(* C9: when the snapped start state is the snapped goal state, the path *)
(* is that one state and the four accumulators are 0.                   *)
C9_SameNode ==
  (pc = "done" /\ hist.searched /\ rt.start_state = rt.end_state) =>
    /\ rt.path_len = 1
    /\ g_path = <<rt.start_state>>
    /\ g_dist = ZeroDist

(* The category of an edge by the rules of the route summary. *)
SummaryCategory(ee, ed) ==
  IF ~ee.has_bike /\ ee.has_ped THEN "pushing"
  ELSE IF /\ ed.use \in {USE_CYCLEWAY, USE_PATH, USE_FOOTWAY, USE_MOUNTAIN_BIKE}
          /\ ~ee.has_car THEN "car_free"
  ELSE IF ed.use \in {USE_TRACK, USE_LIVING_STREET, USE_SERVICE_ROAD} THEN "car_free"
  ELSE IF ed.cycle_lane >= 2 /\ ee.has_car THEN "separated"
  ELSE IF ee.has_car THEN "with_cars"
  ELSE "car_free"

(* The length pair i adds to category k under those rules. *)
SummaryShare(i, k) ==
  IF ~HasNode(g_path[i]) THEN 0
  ELSE IF StatEdge(g_path[i].tile_id, g_path[i].node_id, g_path[i + 1]) = NULL THEN 0
  ELSE IF SummaryCategory(
            get_edge_end(g_path[i].tile_id,
                         StatEdge(g_path[i].tile_id, g_path[i].node_id, g_path[i + 1])),
            get_edge_details(g_path[i].tile_id,
                         StatEdge(g_path[i].tile_id, g_path[i].node_id, g_path[i + 1]))) # k
       THEN 0
  ELSE get_edge_details(g_path[i].tile_id,
         StatEdge(g_path[i].tile_id, g_path[i].node_id, g_path[i + 1])).length

RECURSIVE SummaryBy(_, _)
SummaryBy(i, k) ==
  IF i >= Len(g_path) THEN 0 ELSE SummaryShare(i, k) + SummaryBy(i + 1, k)

(* C10: each accumulator holds the lengths of the path edges that the   *)
(* rules of the route summary put in its category; an edge with         *)
(* cycle_lane >= 2 and no car access is not counted as separated.       *)
C10_Classification ==
  Returned =>
    \A k \in {"car_free", "separated", "with_cars", "pushing"} :
       g_dist[k] = SummaryBy(1, k)

(* C13: once the guard has fired, no later meeting-point candidate of   *)
(* the continued loop is smaller than the best_total_cost recorded when *)
(* it fired: best_total_cost stays what it was.                         *)
C13_BestFinalAtGuard ==
  hist.guard_fired => rt.best_total_cost = hist.fired_best

(* route() is inside its search loop. *)
InLoop == hist.searched /\ pc \in {"fwd", "bwd", "guard"}

(* best_total_cost is the minimum of the candidate totals computed so   *)
(* far (hist.min_total), and a recorded meeting point is in both        *)
(* visited tables with g values that sum to at most best_total_cost.    *)
MeetingRecorded ==
  /\ rt.best_total_cost = hist.min_total
  /\ rt.best_total_cost < Inf =>
       /\ visited_find(g_visited_fwd, rt.meeting_point) # NULL
       /\ visited_find(g_visited_bwd, rt.meeting_point) # NULL
       /\ g_visited_fwd[visited_find(g_visited_fwd, rt.meeting_point)].g
            + g_visited_bwd[visited_find(g_visited_bwd, rt.meeting_point)].g
            <= rt.best_total_cost

(* C24: throughout the search loop best_total_cost never increases, it  *)
(* equals the minimum of all candidate totals computed so far, and a    *)
(* recorded meeting point is present in both visited tables with        *)
(* g_fwd + g_bwd <= best_total_cost.                                    *)
C24_BestTracksMinimum ==
  [][ /\ InLoop => rt'.best_total_cost <= rt.best_total_cost
      /\ InLoop' => MeetingRecorded' ]_vars

(* One pass of the search loop: a block that finds its heap non-empty   *)
(* pops once and counts once, and the loop is left when its condition   *)
(* is false.                                                            *)
PassPops ==
  /\ (pc = "fwd" /\ LoopCondition /\ Len(g_heap_fwd) > 0)
       => rt'.iterations = rt.iterations + 1 /\ hist'.pops = hist.pops + 1
  /\ (pc = "fwd" /\ LoopCondition /\ Len(g_heap_fwd) = 0)
       => pc' = "bwd" /\ Len(g_heap_bwd) > 0
  /\ (pc = "bwd" /\ Len(g_heap_bwd) > 0)
       => rt'.iterations = rt.iterations + 1 /\ hist'.pops = hist.pops + 1
  /\ (pc = "fwd" /\ ~LoopCondition) => pc' = "reconstruct"

(* A measure of the work the loop has left: four units for every pop    *)
(* the counter still allows, and the position within the pass.          *)
LoopMeasure ==
  4 * (rt.max_iterations + 1 - rt.iterations)
    + (CASE pc = "guard" -> 2
         [] pc = "fwd" -> 1
         [] pc = "bwd" -> IF Len(g_heap_bwd) = 0 THEN 3 ELSE 0
         [] OTHER -> 0)

(* A step inside the loop leaves the loop or lowers the measure. *)
LoopAdvances ==
  InLoop => \/ pc' = "reconstruct"
            \/ InLoop' /\ LoopMeasure' < LoopMeasure

(* C25: the search loop of route() terminates: a pass that starts with  *)
(* a non-empty heap pops at least once and counts each pop, the loop    *)
(* ends when both heaps are empty or the counter has reached            *)
(* max_iterations (within its clamp), the pops never exceed             *)
(* max_iterations + 1, and every step of the loop lowers a measure that *)
(* never goes below zero, so no run stays in the loop forever.          *)
C25_SearchTerminates ==
  /\ [](hist.searched =>
          /\ hist.pops = rt.iterations
          /\ hist.pops <= rt.max_iterations + 1
          /\ rt.max_iterations \in MIN_ITERATIONS..MAX_ITERATIONS)
  /\ [](InLoop => LoopMeasure >= 0)
  /\ [][PassPops /\ LoopAdvances]_vars

(* The loop was left at the cap with a heap still non-empty. *)
C25_Witness == pc = "reconstruct" /\ hist.cap_reached

(* A step that pops finds the heap it pops from non-empty. *)
PopsNonEmpty ==
  hist'.pops > hist.pops =>
    \/ pc = "fwd" /\ Len(g_heap_fwd) > 0 /\ Len(g_heap_fwd') >= Len(g_heap_fwd) - 1
    \/ pc = "bwd" /\ Len(g_heap_bwd) > 0 /\ Len(g_heap_bwd') >= Len(g_heap_bwd) - 1

(* C27: in every state of route() each heap holds between 0 and         *)
(* MAX_HEAP entries, a heap_push on a heap holding MAX_HEAP entries     *)
(* leaves the heap as it was, and heap_pop is only called on a heap     *)
(* that is not empty.                                                   *)
C27_HeapWithinBounds ==
  /\ [](/\ Len(g_heap_fwd) \in 0..MAX_HEAP
        /\ Len(g_heap_bwd) \in 0..MAX_HEAP
        /\ ~hist.full_changed)
  /\ [][PopsNonEmpty]_vars

(* A push was dropped on a full heap, and the heap is full. *)
C27_Witness ==
  /\ hist.heap_dropped
  /\ (Len(g_heap_fwd) = MAX_HEAP \/ Len(g_heap_bwd) = MAX_HEAP)

(* Edge record ei of the tile of state p passes every gate and ends at  *)
(* state s.                                                             *)
GatedEdgeTo(p, ei, s) ==
  /\ HasNode(p)
  /\ Expandable(p.tile_id, ei)
  /\ get_edge_end(p.tile_id, ei).end_tile_id = s.tile_id
  /\ get_edge_end(p.tile_id, ei).end_node_id = s.node_id

(* Every entry of the visited table and of the heap other than the root *)
(* was written for a gated edge of its parent's tile.                   *)
OnlyGated(tbl, heap, root) ==
  /\ \A idx \in 0..(MAX_VISITED - 1) :
       (tbl[idx].valid = 1 /\ tbl[idx].state # root)
         => GatedEdgeTo(tbl[idx].parent, tbl[idx].parent_edge, tbl[idx].state)
  /\ \A i \in 1..Len(heap) :
       heap[i].state # root
         => GatedEdgeTo(heap[i].parent, heap[i].parent_edge, heap[i].state)

(* C23: in both directions a heap push and a visited insertion happen   *)
(* only for an edge that passed every gate: index below the tile's      *)
(* edge_count and decodable, end_level 2, bicycle or pedestrian access, *)
(* surface within the worst allowed, end tile loaded with end_node_id   *)
(* below its node_count.                                                *)
C23_OnlyGatedEdges ==
  (hist.searched /\ pc \in {"fwd", "bwd", "guard", "reconstruct"}) =>
    /\ OnlyGated(g_visited_fwd, g_heap_fwd, rt.start_state)
    /\ OnlyGated(g_visited_bwd, g_heap_bwd, rt.end_state)

(* The slots of the visited table that hold state s. *)
SlotsHolding(tbl, s) ==
  {idx \in 0..(MAX_VISITED - 1) : tbl[idx].valid = 1 /\ tbl[idx].state = s}

(* The cost route() adds for edge record ei of the tile of state p. *)
ParentEdgeCost(p, ei) ==
  ExpansionCost(get_edge_end(p.tile_id, ei), get_edge_details(p.tile_id, ei))

(* The entry in slot idx has its parent in the table, the parent's g    *)
(* plus the cost of the parent edge is at most the entry's g, and the   *)
(* parent's g is below the entry's g.                                   *)
ParentBelow(tbl, idx) ==
  \E pi \in SlotsHolding(tbl, tbl[idx].parent) :
    /\ HasNode(tbl[idx].parent)
    /\ get_edge_end(tbl[idx].parent.tile_id, tbl[idx].parent_edge).ok
    /\ tbl[pi].g + ParentEdgeCost(tbl[idx].parent, tbl[idx].parent_edge) <= tbl[idx].g
    /\ tbl[pi].g < tbl[idx].g

(* Following parent links from state s reaches the root within n steps. *)
RECURSIVE ReachesRoot(_, _, _, _)
ReachesRoot(tbl, root, s, n) ==
  IF s = root THEN TRUE
  ELSE IF n = 0 \/ SlotsHolding(tbl, s) = {} THEN FALSE
  ELSE \A idx \in SlotsHolding(tbl, s) : ReachesRoot(tbl, root, tbl[idx].parent, n - 1)

(* The visited table is a tree rooted at `root`. *)
ParentTree(tbl, root) ==
  \A idx \in 0..(MAX_VISITED - 1) :
    tbl[idx].valid = 1 =>
      IF tbl[idx].state = root
      THEN tbl[idx].g = 0 /\ tbl[idx].parent = null_state
      ELSE /\ ParentBelow(tbl, idx)
           /\ ReachesRoot(tbl, root, tbl[idx].state, MAX_VISITED)

(* C28: in every state of the search each visited entry other than the  *)
(* root has its parent in the same table with                           *)
(* g(parent) + cost(parent_edge) <= g(entry) and g(parent) < g(entry),  *)
(* parent links lead to the root without a cycle, and the root's entry  *)
(* keeps g = 0 and the null parent.                                     *)
C28_ParentTree ==
  (hist.searched /\ pc \in {"fwd", "bwd", "guard", "reconstruct"}) =>
    /\ ParentTree(g_visited_fwd, rt.start_state)
    /\ ParentTree(g_visited_bwd, rt.end_state)

(* The entry heap_pop returns from `heap` is stale: its g is greater    *)
(* than the g the visited table `own` stores for its state.             *)
StalePop(heap, own) ==
  /\ Len(heap) > 0
  /\ visited_find(own, heap_pop(heap).ret.state) # NULL
  /\ heap_pop(heap).ret.g > own[visited_find(own, heap_pop(heap).ret.state)].g

(* Nothing but the popped heap changes its contents, and the number of  *)
(* pops that went on to the meeting-point check (hist.checked) stays.   *)
OnlyPopped(heap, other) ==
  /\ heap' = heap_pop(heap).heap
  /\ hist'.checked = hist.checked
  /\ UNCHANGED <<other, g_visited_fwd, g_visited_bwd, g_tiles>>
  /\ rt'.best_total_cost = rt.best_total_cost
  /\ rt'.meeting_point = rt.meeting_point

(* C18: in both directions a popped entry whose g is greater than the g *)
(* stored for its state in that direction's visited table is discarded: *)
(* no meeting-point check, no expansion, no heap push, no visited       *)
(* insertion, best_total_cost and meeting_point unchanged.              *)
C18_StaleDiscarded ==
  [][ /\ (pc = "fwd" /\ rt.iterations < rt.max_iterations
                     /\ StalePop(g_heap_fwd, g_visited_fwd))
          => OnlyPopped(g_heap_fwd, g_heap_bwd)
      /\ (pc = "bwd" /\ StalePop(g_heap_bwd, g_visited_bwd))
          => OnlyPopped(g_heap_bwd, g_heap_fwd) ]_vars

(* In each direction a stale entry was popped. *)
C18_Witness == hist.stale_fwd /\ hist.stale_bwd

(* The search loop of route() has ended. *)
LoopEnded == hist.searched /\ pc \in {"reconstruct", "output", "done"}

(* Every entry of the visited table holds the lowest new_g computed for *)
(* its state.                                                           *)
HoldsBest(tbl, proposed) ==
  \A idx \in 0..(MAX_VISITED - 1) :
     tbl[idx].valid = 1 => tbl[idx].g = proposed[tbl[idx].state]

(* C15: after the search loop ended, in each direction every state in   *)
(* the visited table has the minimum of the g values proposed for it (0 *)
(* for the root, cur.g + cost for each gated edge into it), whether or  *)
(* not a heap push or a visited insertion was dropped.                  *)
C15_VisitedHoldsBest ==
  LoopEnded =>
    /\ HoldsBest(g_visited_fwd, hist.proposed_fwd)
    /\ HoldsBest(g_visited_bwd, hist.proposed_bwd)

(* A run in which an entry's g was lowered and a visited insertion was  *)
(* dropped has ended its loop.                                          *)
C15_Witness ==
  LoopEnded /\ hist.lowered /\ hist.visited_dropped

(* C14: in no expansion of route() is `tile` or `node` read after an    *)
(* eviction inside the edge loop changed the tile the handle denotes or *)
(* freed the nodes array.                                               *)
C14_HandleStable == ~hist.stale_use

(* The tile file of the requested start coordinate cannot be opened. *)
StartTileMissing ==
  decompress_gzip(TileIdOf(args.from_lat, args.from_lon)).raw_size < 0

(* C12: when main has returned, no buffer it or load_tile allocated is  *)
(* still allocated, and a missing start tile gave the tile_load_failed  *)
(* error object.                                                        *)
C12_NoLeakAtExit ==
  pc = "done" =>
    /\ allocated = {}
    /\ StartTileMissing => ret.error = "tile_load_failed"

(* C11: when the run with avoid_pushing = 0 and the run of the same     *)
(* query with avoid_pushing = 1 both returned a path, the second run's  *)
(* dist_pushing is at most the first run's.                             *)
C11_PushingNotLarger ==
  (Returned /\ hist.run = 1 /\ hist.first.returned)
    => g_dist.pushing <= hist.first.pushing

(* ------------------------------------------------------------------ *)
(* The tile loader on its own: load_tile called on arbitrary buffers    *)
(* ------------------------------------------------------------------ *)
(* The sizes and header counts of the buffers tried. *)
MaxLoads == 4
MaxCount == 3
RawSizes == {0, 271, 272, 303, 304, 336, 400}

(* A well-formed file of one node. *)
SmallFile ==
  [raw_size |-> 304, node_count |-> 1, edge_count |-> 0, trans_count |-> 0]

HeaderFiles ==
  {NoFile} \cup
  [raw_size : RawSizes, node_count : 0..MaxCount, edge_count : 0..MaxCount,
   trans_count : 0..1]

InitLoad ==
  /\ \E f \in HeaderFiles, f0 \in {NoFile, SmallFile} :
       disk = [t \in 0..MaxTileId |->
                 IF t = 1 THEN f ELSE IF t = 2 THEN SmallFile ELSE f0]
  /\ args = Args("tile1", "S", "T", 0, 0, 0)
  /\ pc = "load"
  /\ g_tiles = << >>
  /\ g_heap_fwd = << >>
  /\ g_heap_bwd = << >>
  /\ g_visited_fwd = visited_clear
  /\ g_visited_bwd = visited_clear
  /\ rt = NoRoute
  /\ g_path = << >>
  /\ g_dist = ZeroDist
  /\ ret = [error |-> "", exit |-> -1, coords |-> << >>]
  /\ allocated = {}
  /\ hist = NoHist

(* One call of load_tile: the cache after it, the handle returned and   *)
(* the node-record offsets read while parsing.                          *)
LoadTile ==
  /\ pc = "load"
  /\ hist.pops < MaxLoads
  /\ \E tile_id \in 0..MaxTileId :
       /\ g_tiles' = load_tile(g_tiles, tile_id).tiles
       /\ allocated' = AfterLoads(allocated, g_tiles, load_tile(g_tiles, tile_id).tiles)
       /\ hist' = [hist EXCEPT
            !.pops = @ + 1,
            !.load_id = tile_id,
            !.load_before = g_tiles,
            !.born = IF load_tile(g_tiles, tile_id).t # NULL /\ ~Cached(g_tiles, tile_id)
                     THEN [@ EXCEPT ![tile_id] = hist.pops + 1] ELSE @,
            !.hit = @ \/ Cached(g_tiles, tile_id),
            !.load_ret = load_tile(g_tiles, tile_id).t,
            !.load_reads = load_tile_reads(g_tiles, tile_id)]
  /\ UNCHANGED <<disk, args, pc, g_heap_fwd, g_heap_bwd, g_visited_fwd,
                 g_visited_bwd, rt, g_path, g_dist, ret>>

NextLoad == LoadTile

SpecLoad == InitLoad /\ [][NextLoad]_vars

(* The tile of the cache `tiles` inserted earliest, hist.born giving    *)
(* the number of the call that inserted each cached tile.               *)
Oldest(tiles) ==
  CHOOSE t \in {tiles[i] : i \in 1..Len(tiles)} :
    \A i \in 1..Len(tiles) : hist.born[t] <= hist.born[tiles[i]]

C29_FailedLoadKeepsCache ==
  (pc = "load" /\ hist.pops > 0 /\ hist.load_ret = NULL) =>
    g_tiles = hist.load_before

(* C30: after any sequence of load_tile calls the cache holds at most   *)
(* MAX_TILES tiles, 0 <= g_tile_count <= MAX_TILES, and no two slots    *)
(* hold the same tile_id.                                               *)
C30_CacheBounded ==
  /\ Len(g_tiles) \in 0..MAX_TILES
  /\ \A i, j \in 1..Len(g_tiles) : g_tiles[i] = g_tiles[j] => i = j

(* A full cache after MaxLoads calls of which one was a hit and the     *)
(* last one failed on a full cache.                                     *)
C30_Witness ==
  /\ pc = "load"
  /\ hist.pops = MaxLoads
  /\ hist.hit
  /\ hist.load_ret = NULL
  /\ Len(hist.load_before) = MAX_TILES

(* ------------------------------------------------------------------ *)
(* The visited tables on their own: visited_insert called with          *)
(* arbitrary arguments                                                  *)
(* ------------------------------------------------------------------ *)
MaxCalls == 2
CallStates == {State(0, 0), State(1, 0), State(1, 1)}
CallParents == {State(1, 2), State(1, 3)}
CallCosts == {0, 5, 9}

InitVisited ==
  /\ disk = [t \in 0..MaxTileId |-> NoFile]
  /\ args = Args("tile1", "S", "T", 0, 0, 0)
  /\ pc = "visit"
  /\ g_tiles = << >>
  /\ g_heap_fwd = << >>
  /\ g_heap_bwd = << >>
  /\ g_visited_fwd = visited_clear
  /\ g_visited_bwd = visited_clear
  /\ rt = NoRoute
  /\ g_path = << >>
  /\ g_dist = ZeroDist
  /\ ret = [error |-> "", exit |-> -1, coords |-> << >>]
  /\ allocated = {}
  /\ hist = NoHist

(* The record of one call of visited_insert on the table tbl. *)
InsertCall(op, tbl, s, g, parent, parent_edge) ==
  [op |-> op, state |-> s, g |-> g, parent |-> parent,
   parent_edge |-> parent_edge, before |-> tbl]

(* One call of visited_insert_fwd. *)
VisitedInsertFwd ==
  /\ pc = "visit"
  /\ hist.pops < MaxCalls
  /\ \E s \in CallStates, g \in CallCosts, parent \in CallParents, parent_edge \in 0..1 :
       /\ g_visited_fwd' = visited_insert(g_visited_fwd, s, g, parent, parent_edge)
       /\ hist' = [hist EXCEPT
            !.pops = @ + 1,
            !.call = InsertCall("insert_fwd", g_visited_fwd, s, g, parent, parent_edge)]
  /\ UNCHANGED <<disk, args, pc, g_tiles, g_heap_fwd, g_heap_bwd, g_visited_bwd,
                 rt, g_path, g_dist, ret, allocated>>

(* One call of visited_insert_bwd. *)
VisitedInsertBwd ==
  /\ pc = "visit"
  /\ hist.pops < MaxCalls
  /\ \E s \in CallStates, g \in CallCosts, parent \in CallParents, parent_edge \in 0..1 :
       /\ g_visited_bwd' = visited_insert(g_visited_bwd, s, g, parent, parent_edge)
       /\ hist' = [hist EXCEPT
            !.pops = @ + 1,
            !.call = InsertCall("insert_bwd", g_visited_bwd, s, g, parent, parent_edge)]
  /\ UNCHANGED <<disk, args, pc, g_tiles, g_heap_fwd, g_heap_bwd, g_visited_fwd,
                 rt, g_path, g_dist, ret, allocated>>

NextVisited == VisitedInsertFwd \/ VisitedInsertBwd

SpecVisited == InitVisited /\ [][NextVisited]_vars

(* ------------------------------------------------------------------ *)
(* The cost of one edge on its own: the gates and the cost of the edge  *)
(* loop applied to arbitrary decoded edges                              *)
(* ------------------------------------------------------------------ *)
MaxCostCalls == 1
CostedUses ==
  {USE_ROAD, USE_TRACK, USE_LIVING_STREET, USE_SERVICE_ROAD, USE_CYCLEWAY,
   USE_MOUNTAIN_BIKE, USE_FOOTWAY, USE_STEPS, USE_PATH, USE_FERRY}
CostedLengths == {20, 100}
CostedSpeeds == {1, 60, 255}
CostedGrades == {1, 7, 15}
CostedSurfaces == {0, 2, 6}

(* The decoded ends: bicycle only, pedestrian only, bicycle and car. *)
CostedEnds ==
  {[ok |-> TRUE, end_level |-> 2, end_tile_id |-> 1, end_node_id |-> 0,
    has_bike |-> b, has_ped |-> p, has_car |-> c] :
     b \in BOOLEAN, p \in BOOLEAN, c \in BOOLEAN}

CostedDetails ==
  [ok : {TRUE}, speed : CostedSpeeds, use : CostedUses, lanecount : {1},
   classification : {4}, surface : CostedSurfaces, cycle_lane : {0, 2},
   bike_network : {0, 1}, use_sidepath : {0}, dismount : {0, 1}, shoulder : {0},
   length : CostedLengths, weighted_grade : CostedGrades]

InitCost ==
  /\ disk = [t \in 0..MaxTileId |-> NoFile]
  /\ \E bike \in 0..3, ap \in {0, 1}, ac \in {0, 1} :
       args = Args("tile1", "S", "T", bike, ap, ac)
  /\ pc = "cost"
  /\ g_tiles = << >>
  /\ g_heap_fwd = << >>
  /\ g_heap_bwd = << >>
  /\ g_visited_fwd = visited_clear
  /\ g_visited_bwd = visited_clear
  /\ rt = NoRoute
  /\ g_path = << >>
  /\ g_dist = ZeroDist
  /\ ret = [error |-> "", exit |-> -1, coords |-> << >>]
  /\ allocated = {}
  /\ hist = NoHist

(* The edge loop's body up to new_g for one decoded edge that passes    *)
(* the gates.                                                           *)
EdgeCost ==
  /\ pc = "cost"
  /\ hist.pops < MaxCostCalls
  /\ \E ee \in CostedEnds, ed \in CostedDetails :
       /\ AccessAllowed(ee)
       /\ SurfaceAllowedFwd(ed)
       /\ hist' = [hist EXCEPT
            !.pops = @ + 1,
            !.cost_call = [done |-> TRUE, length |-> ed.length, use |-> ed.use,
                           cost |-> ExpansionCost(ee, ed),
                           pushing |-> ~ee.has_bike /\ ee.has_ped,
                           ridden |-> ExpansionCost([ee EXCEPT !.has_bike = TRUE], ed),
                           grade |-> ed.weighted_grade, surface |-> ed.surface,
                           dismount |-> ed.dismount, speed |-> RawSpeed(ed)]]
  /\ UNCHANGED <<disk, args, pc, g_tiles, g_heap_fwd, g_heap_bwd, g_visited_fwd,
                 g_visited_bwd, rt, g_path, g_dist, ret, allocated>>

NextCost == EdgeCost

SpecCost == InitCost /\ [][NextCost]_vars

(* C20: for every bicycle type and every edge that passes the gates,    *)
(* the cost added at expansion is at least the heuristic's cost for the *)
(* edge's length, length * 3.6 / (2 * default cycling speed).           *)
C20_EdgeAdmissible ==
  hist.cost_call.done => hist.cost_call.cost >= HeuristicCost(hist.cost_call.length)

(* C22: the grade speed factor is 1.0 at grade 7: a non-dismount edge   *)
(* decoded with weighted_grade 7 gets, before clamping, the speed       *)
(* default_cycling_speed[type] * surface_speed_factor[type][surface];   *)
(* and the factors over grades 0..15 do not increase, from 2.2 to 0.3.  *)
C22_GradeSevenNeutral ==
  /\ (hist.cost_call.done /\ hist.cost_call.grade = 7 /\ hist.cost_call.dismount = 0)
       => hist.cost_call.speed
            = kDefaultCyclingSpeed[args.bicycle_type + 1]
              * kSurfaceSpeedFactor[args.bicycle_type + 1][hist.cost_call.surface + 1]
              * 100
  /\ \A g \in 1..15 : kGradeBasedSpeedFactor[g + 1] <= kGradeBasedSpeedFactor[g]
  /\ kGradeBasedSpeedFactor[1] = 220
  /\ kGradeBasedSpeedFactor[16] = 30

(* C21: for an edge with pedestrian but no bicycle access that is       *)
(* neither steps nor ferry, the cost used at expansion is the cost the  *)
(* same edge has with bicycle access (hist.cost_call.ridden) times      *)
(* exactly 2 with avoid_pushing off and exactly 5 with it on.           *)
C21_PushingFactor ==
  (hist.cost_call.done /\ hist.cost_call.pushing
     /\ hist.cost_call.use \notin {USE_STEPS, USE_FERRY})
    => hist.cost_call.cost
         = hist.cost_call.ridden * (IF args.avoid_pushing # 0 THEN 5 ELSE 2)

(* ------------------------------------------------------------------ *)
(* A heap on its own: heap_push and heap_pop called in any order        *)
(* ------------------------------------------------------------------ *)
(* The array holds HeapCap entries here; f is drawn from 1..MaxF. *)
HeapCap == 4
MaxHeapCalls == 7
MaxF == 3

InitHeap ==
  /\ disk = [t \in 0..MaxTileId |-> NoFile]
  /\ args = Args("tile1", "S", "T", 0, 0, 0)
  /\ pc = "heap"
  /\ g_tiles = << >>
  /\ g_heap_fwd = << >>
  /\ g_heap_bwd = << >>
  /\ g_visited_fwd = visited_clear
  /\ g_visited_bwd = visited_clear
  /\ rt = NoRoute
  /\ g_path = << >>
  /\ g_dist = ZeroDist
  /\ ret = [error |-> "", exit |-> -1, coords |-> << >>]
  /\ allocated = {}
  /\ hist = NoHist

(* The entry pushed by call number n with key f. *)
PushedEntry(f, n) ==
  [f |-> f, g |-> f, dist |-> n, state |-> null_state, parent |-> null_state,
   parent_edge |-> 0]

(* The record of a push of e on the heap h of direction dir. *)
PushCall(dir, h, e) ==
  [dir |-> dir, op |-> "push", before |-> h,
   held |-> IF Len(h) >= HeapCap THEN hist.heap_call.held
            ELSE hist.heap_call.held \cup {e},
   dropped |-> hist.heap_call.dropped \/ Len(h) >= HeapCap, prev_f |-> -1]

(* The record of a pop from the heap h of direction dir. *)
PopCall(dir, h) ==
  [dir |-> dir, op |-> "pop", before |-> h,
   held |-> hist.heap_call.held \ {heap_pop(h).ret},
   dropped |-> hist.heap_call.dropped,
   prev_f |-> IF hist.heap_call.op = "pop" THEN hist.heap_call.before[1].f ELSE -1]

HeapPushFwd ==
  /\ pc = "heap"
  /\ hist.pops < MaxHeapCalls
  /\ hist.heap_call.dir \in {"none", "fwd"}
  /\ \E f \in 1..MaxF :
       /\ g_heap_fwd' = heap_push_cap(g_heap_fwd, PushedEntry(f, hist.pops), HeapCap)
       /\ hist' = [hist EXCEPT
            !.pops = @ + 1,
            !.heap_call = PushCall("fwd", g_heap_fwd, PushedEntry(f, hist.pops))]
  /\ UNCHANGED <<disk, args, pc, g_tiles, g_heap_bwd, g_visited_fwd, g_visited_bwd,
                 rt, g_path, g_dist, ret, allocated>>

HeapPopFwd ==
  /\ pc = "heap"
  /\ hist.pops < MaxHeapCalls
  /\ hist.heap_call.dir = "fwd"
  /\ Len(g_heap_fwd) > 0
  /\ g_heap_fwd' = heap_pop(g_heap_fwd).heap
  /\ hist' = [hist EXCEPT !.pops = @ + 1, !.heap_call = PopCall("fwd", g_heap_fwd)]
  /\ UNCHANGED <<disk, args, pc, g_tiles, g_heap_bwd, g_visited_fwd, g_visited_bwd,
                 rt, g_path, g_dist, ret, allocated>>

HeapPushBwd ==
  /\ pc = "heap"
  /\ hist.pops < MaxHeapCalls
  /\ hist.heap_call.dir \in {"none", "bwd"}
  /\ \E f \in 1..MaxF :
       /\ g_heap_bwd' = heap_push_cap(g_heap_bwd, PushedEntry(f, hist.pops), HeapCap)
       /\ hist' = [hist EXCEPT
            !.pops = @ + 1,
            !.heap_call = PushCall("bwd", g_heap_bwd, PushedEntry(f, hist.pops))]
  /\ UNCHANGED <<disk, args, pc, g_tiles, g_heap_fwd, g_visited_fwd, g_visited_bwd,
                 rt, g_path, g_dist, ret, allocated>>

HeapPopBwd ==
  /\ pc = "heap"
  /\ hist.pops < MaxHeapCalls
  /\ hist.heap_call.dir = "bwd"
  /\ Len(g_heap_bwd) > 0
  /\ g_heap_bwd' = heap_pop(g_heap_bwd).heap
  /\ hist' = [hist EXCEPT !.pops = @ + 1, !.heap_call = PopCall("bwd", g_heap_bwd)]
  /\ UNCHANGED <<disk, args, pc, g_tiles, g_heap_fwd, g_visited_fwd, g_visited_bwd,
                 rt, g_path, g_dist, ret, allocated>>

NextHeap == HeapPushFwd \/ HeapPopFwd \/ HeapPushBwd \/ HeapPopBwd

SpecHeap == InitHeap /\ [][NextHeap]_vars

(* Every parent's f is at most its children's f. *)
HeapOrdered(h) ==
  \A i \in 1..(Len(h) - 1) : h[((i - 1) \div 2) + 1].f <= h[i + 1].f

(* The heap h holds exactly the entries of `held`, each once. *)
HoldsExactly(h, held) ==
  /\ Len(h) = Cardinality(held)
  /\ {h[i] : i \in 1..Len(h)} = held

(* The last call c was a pop that returned an entry of minimal f among  *)
(* those held before it, and no less than the pop just before it.       *)
PopMinimal(c) ==
  c.op = "pop" =>
    /\ \A i \in 1..Len(c.before) : heap_pop(c.before).ret.f <= c.before[i].f
    /\ c.prev_f <= heap_pop(c.before).ret.f

(* C17: after any sequence of heap_push and heap_pop calls on one heap  *)
(* the array is in min-heap order, heap_pop returned an entry of        *)
(* minimal f (so consecutive pops return non-decreasing f), and the     *)
(* entries held are those pushed and not dropped minus those popped.    *)
C17_HeapCorrect ==
  pc = "heap" =>
    /\ HeapOrdered(g_heap_fwd) /\ HeapOrdered(g_heap_bwd)
    /\ PopMinimal(hist.heap_call)
    /\ HoldsExactly(IF hist.heap_call.dir = "bwd" THEN g_heap_bwd ELSE g_heap_fwd,
                    hist.heap_call.held)

(* A push was dropped on a full heap, and the last two calls were pops  *)
(* of which the second returned a larger f and left entries behind.     *)
C17_Witness ==
  /\ pc = "heap"
  /\ hist.heap_call.dropped
  /\ hist.heap_call.op = "pop"
  /\ hist.heap_call.prev_f >= 1
  /\ hist.heap_call.prev_f < hist.heap_call.before[1].f
  /\ Len(hist.heap_call.before) >= 3

(* What the call recorded in c made of the table: an entry present      *)
(* before it is replaced as a whole when c.g is strictly lower and is   *)
(* left as it was otherwise.                                            *)
OnlyLowered(c, after) ==
  LET idx == visited_find(c.before, c.state)
  IN idx # NULL =>
       IF c.g < c.before[idx].g
       THEN after[idx] = [valid |-> 1, state |-> c.state, parent |-> c.parent,
                          parent_edge |-> c.parent_edge, g |-> c.g]
       ELSE after = c.before

WordBits == 1..64

(* The bytes tried at each of the eight positions of word 0. *)
WordBytes == {0, 165, 255}

(* read_u64: the bytes d[o] .. d[o + 7], least significant first. *)
read_u64(d, o) ==
  [k \in WordBits |-> (d[o + ((k - 1) \div 8) + 1] \div (2 ^ ((k - 1) % 8))) % 2]

(* a & b, a >> n, and the constant whose low n bits are set. *)
And64(a, b) == [k \in WordBits |-> a[k] * b[k]]
Shr64(a, n) == [k \in WordBits |-> IF k + n <= 64 THEN a[k + n] ELSE 0]
LowBits(n) == [k \in WordBits |-> IF k <= n THEN 1 ELSE 0]

(* The number whose bits from..to of the word a are (for a number that  *)
(* fits 31 bits).                                                       *)
RECURSIVE BitsValue(_, _, _)
BitsValue(a, from, to) ==
  IF from > to THEN 0
  ELSE LET rest == BitsValue(a, from + 1, to)
       IN a[from + 1] + (IF rest = 0 THEN 0 ELSE 2 * rest)

(* The conversions to the fields' types, uint8_t and uint32_t. *)
ToU8(a) == BitsValue(a, 0, 7)
ToU32(a) == BitsValue(a, 0, 31)

(* The decoding with a 21-bit mask for end_tile_id. *)
EndNodeFieldsNarrow(w0) ==
  LET endnode == And64(w0, LowBits(46))
  IN [end_level |-> ToU8(And64(endnode, LowBits(3))),
      end_tile_id |-> ToU32(And64(Shr64(endnode, 3), LowBits(21))),
      end_node_id |-> ToU32(And64(Shr64(endnode, 25), LowBits(21)))]

(* get_edge_end: endnode = w0 & 0x3FFFFFFFFFFF and its three fields,    *)
(* masks 0x7, 0x3FFFFF and 0x1FFFFF.                                    *)
EndNodeFields(w0) ==
  LET endnode == And64(w0, LowBits(46))
  IN [end_level |-> ToU8(And64(endnode, LowBits(3))),
      end_tile_id |-> ToU32(And64(Shr64(endnode, 3), LowBits(22))),
      end_node_id |-> ToU32(And64(Shr64(endnode, 25), LowBits(21)))]

(* The edge record's first eight bytes are any of the bytes tried. *)
InitDecode ==
  /\ disk \in [raw_data : [1..8 -> WordBytes]]
  /\ args = Args("tile1", "S", "T", 0, 0, 0)
  /\ pc = "decode"
  /\ g_tiles = << >>
  /\ g_heap_fwd = << >>
  /\ g_heap_bwd = << >>
  /\ g_visited_fwd = visited_clear
  /\ g_visited_bwd = visited_clear
  /\ rt = NoRoute
  /\ g_path = << >>
  /\ g_dist = ZeroDist
  /\ ret = [error |-> "", exit |-> -1, coords |-> << >>]
  /\ allocated = {}
  /\ hist = NoHist

(* get_edge_end reads word 0 and fills the end fields of *ee. *)
GetEdgeEnd ==
  /\ pc = "decode"
  /\ pc' = "decoded"
  /\ ret' = EndNodeFields(read_u64(disk.raw_data, 0))
  /\ UNCHANGED <<disk, args, g_tiles, g_heap_fwd, g_heap_bwd, g_visited_fwd,
                 g_visited_bwd, rt, g_path, g_dist, allocated, hist>>

NextDecode == GetEdgeEnd

SpecDecode == InitDecode /\ [][NextDecode]_vars

(* C26: the fields get_edge_end decodes recompose to the low 46 bits of *)
(* word 0: end_level + 8 * end_tile_id is the number in bits 0..24 and  *)
(* end_node_id the number in bits 25..45, which is                      *)
(* end_level + 8 * end_tile_id + 2^25 * end_node_id = w0 mod 2^46 split *)
(* at bit 25; and end_level < 2^3, end_tile_id < 2^22,                  *)
(* end_node_id < 2^21.                                                  *)
C26_EndNodeRecomposes ==
  pc = "decoded" =>
    /\ ret.end_level + 8 * ret.end_tile_id
         = BitsValue(read_u64(disk.raw_data, 0), 0, 24)
    /\ ret.end_node_id = BitsValue(read_u64(disk.raw_data, 0), 25, 45)
    /\ ret.end_level \in 0..(2 ^ 3 - 1)
    /\ ret.end_tile_id \in 0..(2 ^ 22 - 1)
    /\ ret.end_node_id \in 0..(2 ^ 21 - 1)

(* A word with bits set above bit 45 and in the top bit of each field   *)
(* was decoded.                                                         *)
C26_Witness ==
  /\ pc = "decoded"
  /\ disk.raw_data[7] # 0
  /\ ret.end_tile_id >= 2 ^ 21
  /\ ret.end_node_id >= 2 ^ 20
  /\ ret.end_level >= 4

====
